---- MODULE Spec2Model ----
(***************************************************************************)
(* Verification model of the guitar tuner's pitch-estimation core:         *)
(*   PitchDetector  (guitar-tuner/src/PitchDetector.ts)                    *)
(*   TunerEngine    (unnamed/part_007)                                     *)
(*                                                                         *)
(* JavaScript numbers are modelled as decimal fixed-point values with      *)
(* Precision fractional digits (the integer n stands for n / ONE), plus    *)
(* the three IEEE-754 specials NaN, +Infinity and -Infinity.  Every        *)
(* product and quotient is rounded to the nearest representable value, as  *)
(* a floating-point unit rounds.  A typed-array read outside the array     *)
(* yields `undefined`, which every comparison and every arithmetic         *)
(* operator of the code turns into NaN; the model reads NaN there.         *)
(***************************************************************************)
EXTENDS Integers, Sequences, FiniteSets, TLC

(***************************************************************************)
(* Bounds of the model.                                                    *)
(***************************************************************************)
\* fractional decimal digits kept by the fixed-point numbers
Precision == 3
\* longest frame drawn exhaustively from the sample alphabet
ShortLen == 2
\* longest frame: constant frames have 1 .. MaxLen samples, tone frames
\* MaxLen - 2 .. MaxLen samples
MaxLen == 12
\* longest silence (zero samples) before a tone starts
MaxSilence == 2
\* how far, in steps of the number grid, the frequencies analysed lie around
\* each reference, midpoint and half-cent point
Spread == 2
\* largest detuning, in cents, of the frequencies built from a reference
MaxCents == 100
\* most media streams, and most audio contexts, the browser hands out
MaxAcquired == 3
\* the length of the longest correlation array of every shape handed to
\* the selector
ShortLags == 5
\* the length of the longest peaked correlation array handed to the selector
MaxLags == 8
\* most change listeners registered on the media query
MaxListeners == 2
\* most streams and most contexts the browser hands out to the app
MaxStarts == 2

RECURSIVE Pow10(_)
Pow10(n) == IF n = 0 THEN 1 ELSE 10 * Pow10(n - 1)

\* the fixed-point representation of 1.0
ONE == Pow10(Precision)

(***************************************************************************)
(* JavaScript numbers                                                      *)
(***************************************************************************)
Num(n) == [k |-> "num", v |-> n]
NaN == [k |-> "nan", v |-> 0]
PosInf == [k |-> "inf", v |-> 1]
NegInf == [k |-> "inf", v |-> -1]

\* a whole number i as a JavaScript number
Int2Num(i) == Num(i * ONE)

IsNum(a) == a.k = "num"
IsNaN(a) == a.k = "nan"
IsInf(a) == a.k = "inf"
\* Number.isFinite
IsFinite(a) == IsNum(a)

Sgn(n) == IF n > 0 THEN 1 ELSE IF n < 0 THEN -1 ELSE 0
AbsInt(n) == IF n < 0 THEN -n ELSE n
\* sign of a non-NaN number: -1, 0 or 1
Sign(a) == Sgn(a.v)

\* a + b
Add(a, b) ==
  CASE IsNaN(a) \/ IsNaN(b) -> NaN
    [] IsNum(a) /\ IsNum(b) -> Num(a.v + b.v)
    [] IsNum(a) -> b
    [] IsNum(b) -> a
    [] OTHER -> IF a = b THEN a ELSE NaN

\* -a
Neg(a) ==
  CASE IsNaN(a) -> NaN
    [] IsInf(a) -> [k |-> "inf", v |-> -a.v]
    [] OTHER -> Num(-a.v)

\* a - b
Sub(a, b) == Add(a, Neg(b))

\* a * b, rounded to the nearest representable value
Mul(a, b) ==
  CASE IsNaN(a) \/ IsNaN(b) -> NaN
    [] IsNum(a) /\ IsNum(b) ->
         Num(Sgn(a.v * b.v) * ((AbsInt(a.v * b.v) + ONE \div 2) \div ONE))
    [] OTHER ->
         IF Sign(a) * Sign(b) = 0 THEN NaN
         ELSE [k |-> "inf", v |-> Sign(a) * Sign(b)]

\* floor(n * 10^digits / d) for n >= 0, d > 0, by long division
RECURSIVE LongDiv(_, _, _, _)
LongDiv(q, r, d, digits) ==
  IF digits = 0 THEN q
  ELSE LongDiv(q * 10 + (r * 10) \div d, (r * 10) % d, d, digits - 1)

\* a / b, rounded to the nearest representable value; x / 0 is +-Infinity
\* and 0 / 0 is NaN (the model has no negative zero)
Div(a, b) ==
  CASE IsNaN(a) \/ IsNaN(b) -> NaN
    [] IsNum(a) /\ IsNum(b) ->
         IF b.v = 0
         THEN (IF a.v = 0 THEN NaN ELSE [k |-> "inf", v |-> Sgn(a.v)])
         ELSE Num(Sgn(a.v) * Sgn(b.v) *
                  ((LongDiv(AbsInt(a.v) \div AbsInt(b.v),
                            AbsInt(a.v) % AbsInt(b.v),
                            AbsInt(b.v), Precision + 1) + 5) \div 10))
    [] IsInf(a) /\ IsInf(b) -> NaN
    [] IsNum(a) -> Num(0)
    [] OTHER -> [k |-> "inf", v |-> a.v * (IF b.v < 0 THEN -1 ELSE 1)]

\* a < b: false as soon as one side is NaN
Lt(a, b) ==
  CASE IsNaN(a) \/ IsNaN(b) -> FALSE
    [] IsNum(a) /\ IsNum(b) -> a.v < b.v
    [] IsInf(a) /\ IsInf(b) -> a.v < b.v
    [] IsInf(a) -> a.v < 0
    [] OTHER -> b.v > 0

\* a > b
Gt(a, b) == Lt(b, a)

\* a <= b and a >= b (false on NaN, unlike the negation of > and <)
Le(a, b) == Lt(a, b) \/ (~IsNaN(a) /\ a = b)
Ge(a, b) == Le(b, a)

\* Math.floor
MathFloor(a) == IF IsNum(a) THEN Num((a.v \div ONE) * ONE) ELSE a

\* Math.min of two numbers
MathMin(a, b) ==
  IF IsNaN(a) \/ IsNaN(b) THEN NaN ELSE IF Lt(a, b) THEN a ELSE b

\* Math.abs
MathAbs(a) ==
  CASE IsNaN(a) -> NaN
    [] IsInf(a) -> PosInf
    [] OTHER -> Num(AbsInt(a.v))

\* array[index] for a Float32Array and a JavaScript number used as index:
\* `undefined` (read as NaN) unless index is a whole number inside the array
At(array, index) ==
  IF IsNum(index) /\ index.v % ONE = 0
     /\ index.v \div ONE >= 0 /\ index.v \div ONE < Len(array)
  THEN array[index.v \div ONE + 1]
  ELSE NaN

\* array.reduce((sum, val) => sum + val, 0)
RECURSIVE ReduceSum(_, _, _)
ReduceSum(array, i, sum) ==
  IF i > Len(array) THEN sum ELSE ReduceSum(array, i + 1, Add(sum, array[i]))

(***************************************************************************)
(* PitchDetector: configuration                                            *)
(***************************************************************************)
\* an AudioConfig, reduced to the two fields PitchDetector reads
AudioConfig(minFrequency, maxFrequency) ==
  [minFrequency |-> minFrequency, maxFrequency |-> maxFrequency]

\* DEFAULT_AUDIO_CONFIG: the guitar band, 70 Hz to 400 Hz
DEFAULT_AUDIO_CONFIG == AudioConfig(Int2Num(70), Int2Num(400))

\* the filter coefficient 0.8
alpha == Num((8 * ONE) \div 10)
\* the correlation threshold 0.15 below which no pitch is reported
threshold == Num((15 * ONE) \div 100)
\* the confidence floor 0.3 of detectPitch
minConfidence == Num((3 * ONE) \div 10)
\* the factor 1.1 of the low-string bonus and of the harmonic test
OnePointOne == Num((11 * ONE) \div 10)
\* the weight 0.2 of the consistency bonus
ZeroPointTwo == Num((2 * ONE) \div 10)
\* calculateConsistencyBonus: const windowSize = 3
windowSize == 3

(***************************************************************************)
(* PitchDetector.applyGuitarFrequencyFilter                                *)
(***************************************************************************)
\* filtered[i] = alpha * filtered[i - 1] + (1 - alpha) * buffer[i], i >= 1
\* (i is the 1-based position; filtered holds the positions before i)
RECURSIVE LowPass(_, _, _)
LowPass(buffer, i, filtered) ==
  IF i > Len(buffer) THEN filtered
  ELSE LowPass(buffer, i + 1,
               Append(filtered,
                      Add(Mul(alpha, filtered[i - 1]),
                          Mul(Sub(Int2Num(1), alpha), buffer[i]))))

\* every element of array minus mean (out holds the positions before i)
RECURSIVE SubtractMeanFrom(_, _, _, _)
SubtractMeanFrom(array, mean, i, out) ==
  IF i > Len(array) THEN out
  ELSE SubtractMeanFrom(array, mean, i + 1, Append(out, Sub(array[i], mean)))

SubtractMean(array, mean) == SubtractMeanFrom(array, mean, 1, <<>>)

\* a filter that works in the caller's array instead of a new one
FilterInPlace(buffer) ==
  LET low == IF Len(buffer) = 0 THEN <<>> ELSE LowPass(buffer, 2, <<buffer[1]>>)
      mean == Div(ReduceSum(low, 1, Num(0)), Int2Num(Len(low)))
      out == SubtractMean(low, mean)
  IN [buffer |-> out, filtered |-> out]

\* a filter whose feedback coefficient has the wrong sign
FilterSignSlip(buffer) ==
  LET RECURSIVE Osc(_, _)
      Osc(i, filtered) ==
        IF i > Len(buffer) THEN filtered
        ELSE Osc(i + 1,
                 Append(filtered,
                        Add(Mul(Neg(alpha), filtered[i - 1]),
                            Mul(Sub(Int2Num(1), alpha), buffer[i]))))
      low == IF Len(buffer) = 0 THEN <<>> ELSE Osc(2, <<buffer[1]>>)
      mean == Div(ReduceSum(low, 1, Num(0)), Int2Num(Len(low)))
  IN [buffer |-> buffer, filtered |-> SubtractMean(low, mean)]

\* a filter that leaves the DC offset in
FilterKeepsMean(buffer) ==
  LET low == IF Len(buffer) = 0 THEN <<>> ELSE LowPass(buffer, 2, <<buffer[1]>>)
  IN [buffer |-> buffer, filtered |-> low]

\* The two arrays after the call: `buffer`, the caller's array, which the
\* function only reads, and `filtered`, the new array it allocates, fills
\* and returns.
applyGuitarFrequencyFilter(buffer) ==
  LET low == IF Len(buffer) = 0 THEN <<>> ELSE LowPass(buffer, 2, <<buffer[1]>>)
      mean == Div(ReduceSum(low, 1, Num(0)), Int2Num(Len(low)))
  IN [buffer |-> buffer, filtered |-> SubtractMean(low, mean)]

(***************************************************************************)
(* PitchDetector.autocorrelate                                             *)
(***************************************************************************)
\* The sums of products are kept exact, as numbers of the unit 1 / ONE^2:
\* a rounding of every product to 1 / ONE, far coarser than the rounding of
\* a double, would let a sum of cross products exceed the sum of squares.
\* a * b in the unit 1 / ONE^2
MulExact(a, b) == IF IsNum(a) /\ IsNum(b) THEN Num(a.v * b.v) ELSE Mul(a, b)

\* sum of centered[i] * centered[i + lag] over i = 0 .. samplesUsed - 1
RECURSIVE LagSum(_, _, _, _)
LagSum(centered, lag, i, sum) ==
  IF i + lag > Len(centered) THEN sum
  ELSE LagSum(centered, lag, i + 1,
              Add(sum, MulExact(centered[i], centered[i + lag])))

\* sum / sumSquares for two sums of products: the quotient of two numbers
\* of one unit, both brought into the range of the long division first
RECURSIVE DivSums(_, _)
DivSums(sum, sumSquares) ==
  IF IsNum(sum) /\ IsNum(sumSquares) /\ AbsInt(sumSquares.v) > 2 * Pow10(8)
  THEN DivSums(Num(Sgn(sum.v) * (AbsInt(sum.v) \div 10)),
               Num(Sgn(sumSquares.v) * (AbsInt(sumSquares.v) \div 10)))
  ELSE Div(sum, sumSquares)

\* correlations[lag] = sum / sumSquares for lag = 0 .. length - 1
\* (correlations holds the lags before lag)
RECURSIVE Correlate(_, _, _, _, _)
Correlate(centered, sumSquares, length, lag, correlations) ==
  IF lag >= length THEN correlations
  ELSE Correlate(centered, sumSquares, length, lag + 1,
                 Append(correlations,
                        DivSums(LagSum(centered, lag, 1, Num(0)), sumSquares)))

\* the buffer minus its mean, and the sum of its squares
centeredBufferOf(buffer) ==
  SubtractMean(buffer, Div(ReduceSum(buffer, 1, Num(0)), Int2Num(Len(buffer))))

sumSquaresOf(buffer) == LagSum(centeredBufferOf(buffer), 0, 1, Num(0))

\* an autocorrelation that is not divided by sumSquares
autocorrelateUnnormalised(buffer) ==
  IF sumSquaresOf(buffer) = Num(0)
  THEN [lag \in 1..(Len(buffer) \div 2) |-> Num(0)]
  ELSE Correlate(centeredBufferOf(buffer), Int2Num(ONE), Len(buffer) \div 2, 0, <<>>)

autocorrelate(buffer) ==
  LET bufferLength == Len(buffer)
      length == bufferLength \div 2
      mean == Div(ReduceSum(buffer, 1, Num(0)), Int2Num(bufferLength))
      centeredBuffer == SubtractMean(buffer, mean)
      sumSquares == LagSum(centeredBuffer, 0, 1, Num(0))
  IN IF sumSquares = Num(0)
     THEN [lag \in 1..length |-> Num(0)]
     ELSE Correlate(centeredBuffer, sumSquares, length, 0, <<>>)

(***************************************************************************)
(* PitchDetector.calculateConsistencyBonus, calculateConfidence,           *)
(* parabolicInterpolation                                                  *)
(***************************************************************************)
\* the loop over harmonic = 2, 3, 4; acc counts consistentPeaks and
\* totalChecked
RECURSIVE HarmonicLoop(_, _, _, _)
HarmonicLoop(correlations, bestPeriod, harmonic, acc) ==
  IF harmonic > 4 THEN acc
  ELSE
    LET harmonicPeriod == MathFloor(Div(bestPeriod, Int2Num(harmonic)))
        inside == Ge(harmonicPeriod, Int2Num(windowSize))
                  /\ Lt(harmonicPeriod, Int2Num(Len(correlations) - windowSize))
        harmonicCorrelation == At(correlations, harmonicPeriod)
        avgNeighbor ==
          Div(Add(At(correlations, Sub(harmonicPeriod, Int2Num(1))),
                  At(correlations, Add(harmonicPeriod, Int2Num(1)))),
              Int2Num(2))
        consistent == Gt(harmonicCorrelation, Mul(avgNeighbor, OnePointOne))
    IN HarmonicLoop(correlations, bestPeriod, harmonic + 1,
         IF inside
         THEN [consistentPeaks |-> acc.consistentPeaks
                                     + (IF consistent THEN 1 ELSE 0),
               totalChecked |-> acc.totalChecked + 1]
         ELSE acc)

calculateConsistencyBonus(correlations, bestPeriod) ==
  LET acc == HarmonicLoop(correlations, bestPeriod, 2,
                          [consistentPeaks |-> 0, totalChecked |-> 0])
  IN IF acc.totalChecked > 0
     THEN Div(Int2Num(acc.consistentPeaks), Int2Num(acc.totalChecked))
     ELSE Num(0)

\* secondBestCorrelation > 0 ? maxCorrelation / secondBestCorrelation
\*                           : maxCorrelation
correlationRatioOf(maxCorrelation, secondBestCorrelation) ==
  IF Gt(secondBestCorrelation, Num(0))
  THEN Div(maxCorrelation, secondBestCorrelation)
  ELSE maxCorrelation

\* Math.min(correlationRatio / 2, 1), the factor confidence is first
\* multiplied by
dominanceFactor(maxCorrelation, secondBestCorrelation) ==
  MathMin(Div(correlationRatioOf(maxCorrelation, secondBestCorrelation),
              Int2Num(2)),
          Int2Num(1))

\* a confidence that is returned as the adjustments leave it
calculateConfidenceUnclamped(maxCorrelation, secondBestCorrelation, correlations, bestPeriod, sampleRate) ==
  LET dominated == Mul(maxCorrelation,
                       dominanceFactor(maxCorrelation, secondBestCorrelation))
      lowString == IF Lt(Div(sampleRate, bestPeriod), Int2Num(150))
                   THEN Mul(dominated, OnePointOne)
                   ELSE dominated
  IN Mul(lowString,
         Add(Int2Num(1),
             Mul(calculateConsistencyBonus(correlations, bestPeriod),
                 ZeroPointTwo)))

calculateConfidence(maxCorrelation, secondBestCorrelation, correlations, bestPeriod, sampleRate) ==
  LET dominated == Mul(maxCorrelation,
                       dominanceFactor(maxCorrelation, secondBestCorrelation))
      frequency == Div(sampleRate, bestPeriod)
      lowString == IF Lt(frequency, Int2Num(150))
                   THEN Mul(dominated, OnePointOne)
                   ELSE dominated
      consistencyBonus == calculateConsistencyBonus(correlations, bestPeriod)
      confidence ==
        Mul(lowString, Add(Int2Num(1), Mul(consistencyBonus, ZeroPointTwo)))
  IN MathMin(confidence, Int2Num(1))

\* the parabola through the peak and its two neighbours: a, b, xOffset
\* and interpolatedPeriod
Parabola(correlations, peakIndex) ==
  LET y1 == At(correlations, Sub(peakIndex, Int2Num(1)))
      y2 == At(correlations, peakIndex)
      y3 == At(correlations, Add(peakIndex, Int2Num(1)))
      a == Div(Add(Sub(y1, Mul(Int2Num(2), y2)), y3), Int2Num(2))
      b == Div(Sub(y3, y1), Int2Num(2))
      xOffset == Div(Neg(b), Mul(Int2Num(2), a))
  IN [a |-> a, b |-> b, xOffset |-> xOffset,
      interpolatedPeriod |-> Add(peakIndex, xOffset)]

parabolicInterpolation(correlations, peakIndex, sampleRate) ==
  IF Le(peakIndex, Num(0))
     \/ Ge(peakIndex, Int2Num(Len(correlations) - 1))
  THEN Div(sampleRate, peakIndex)
  ELSE
    LET parabola == Parabola(correlations, peakIndex)
    IN IF parabola.a = Num(0)
       THEN Div(sampleRate, peakIndex)
       ELSE Div(sampleRate, parabola.interpolatedPeriod)

(***************************************************************************)
(* PitchDetector.findFundamentalFrequencyWithConfidence                    *)
(***************************************************************************)
\* Math.floor(this.sampleRate / this.config.maxFrequency)
minPeriodOf(sampleRate, config) ==
  MathFloor(Div(sampleRate, config.maxFrequency))

\* Math.floor(this.sampleRate / this.config.minFrequency)
maxPeriodOf(sampleRate, config) ==
  MathFloor(Div(sampleRate, config.minFrequency))

\* a test that takes a plateau for a peak: >= where the code has >
isLocalMaxOrPlateau(correlations, period) ==
  /\ Ge(At(correlations, period), At(correlations, Sub(period, Int2Num(1))))
  /\ Ge(At(correlations, period), At(correlations, Add(period, Int2Num(1))))

\* correlation > correlations[period - 1] && correlation > correlations[period + 1]
isLocalMax(correlations, period) ==
  /\ Gt(At(correlations, period), At(correlations, Sub(period, Int2Num(1))))
  /\ Gt(At(correlations, period), At(correlations, Add(period, Int2Num(1))))

\* a scan body that tests !(a <= b) where the code tests a > b; the two
\* differ on NaN
ScanStepNegated(correlations, period, best) ==
  LET correlation == At(correlations, period)
  IN IF ~Le(correlation, At(correlations, Sub(period, Int2Num(1))))
        /\ ~Le(correlation, At(correlations, Add(period, Int2Num(1))))
     THEN IF ~Le(correlation, best.maxCorrelation)
          THEN [maxCorrelation |-> correlation,
                bestPeriod |-> period,
                secondBestCorrelation |-> best.maxCorrelation]
          ELSE IF ~Le(correlation, best.secondBestCorrelation)
               THEN [best EXCEPT !.secondBestCorrelation = correlation]
               ELSE best
     ELSE best

\* a scan body that forgets the old maximum when a greater candidate comes
ScanStepDropsRunnerUp(correlations, period, best) ==
  LET correlation == At(correlations, period)
  IN IF isLocalMax(correlations, period)
     THEN IF Gt(correlation, best.maxCorrelation)
          THEN [best EXCEPT !.maxCorrelation = correlation,
                            !.bestPeriod = period]
          ELSE IF Gt(correlation, best.secondBestCorrelation)
               THEN [best EXCEPT !.secondBestCorrelation = correlation]
               ELSE best
     ELSE best

\* the body of the scan at one period; best holds maxCorrelation,
\* bestPeriod and secondBestCorrelation
ScanStep(correlations, period, best) ==
  LET correlation == At(correlations, period)
  IN IF isLocalMax(correlations, period)
     THEN IF Gt(correlation, best.maxCorrelation)
          THEN [maxCorrelation |-> correlation,
                bestPeriod |-> period,
                secondBestCorrelation |-> best.maxCorrelation]
          ELSE IF Gt(correlation, best.secondBestCorrelation)
               THEN [best EXCEPT !.secondBestCorrelation = correlation]
               ELSE best
     ELSE best

\* for (period = minPeriod; period < bound; period++).  The loop ends when
\* the condition fails.  When period++ leaves period as it is (period is
\* -Infinity) while the condition holds, the loop never ends: the scan
\* reports that with ended = FALSE.
RECURSIVE ScanLoop(_, _, _, _)
ScanLoop(correlations, period, bound, best) ==
  IF ~Lt(period, bound) THEN [ended |-> TRUE, best |-> best]
  ELSE IF Add(period, Int2Num(1)) = period
       THEN [ended |-> FALSE, best |-> best]
       ELSE ScanLoop(correlations, Add(period, Int2Num(1)), bound,
                     ScanStep(correlations, period, best))

\* maxCorrelation, bestPeriod and secondBestCorrelation when the loop is
\* left (best), and whether it is left at all (ended)
ScanOf(correlations, sampleRate, config) ==
  ScanLoop(correlations, minPeriodOf(sampleRate, config),
           MathMin(maxPeriodOf(sampleRate, config),
                   Int2Num(Len(correlations) - 1)),
           [maxCorrelation |-> Num(0),
            bestPeriod |-> Num(0),
            secondBestCorrelation |-> Num(0)])

\* results of a call: null, a value, or no return at all (the call loops
\* forever)
Null == [k |-> "null", frequency |-> NaN, confidence |-> NaN]
Hang == [k |-> "hang", frequency |-> NaN, confidence |-> NaN]
Estimate(frequency, confidence) ==
  [k |-> "value", frequency |-> frequency, confidence |-> confidence]

\* a selector whose scan takes the lag maxPeriod in
findFundamentalFrequencyThroughMaxPeriod(correlations, sampleRate, config) ==
  LET minPeriod == minPeriodOf(sampleRate, config)
      maxPeriod == maxPeriodOf(sampleRate, config)
      scan == ScanLoop(correlations, minPeriod,
                       MathMin(Add(maxPeriod, Int2Num(1)),
                               Int2Num(Len(correlations) - 1)),
                       [maxCorrelation |-> Num(0),
                        bestPeriod |-> Num(0),
                        secondBestCorrelation |-> Num(0)])
      maxCorrelation == scan.best.maxCorrelation
      bestPeriod == scan.best.bestPeriod
  IN IF ~scan.ended THEN Hang
     ELSE IF Lt(maxCorrelation, threshold) \/ bestPeriod = Num(0) THEN Null
     ELSE Estimate(
            parabolicInterpolation(correlations, bestPeriod, sampleRate),
            calculateConfidence(maxCorrelation,
                                scan.best.secondBestCorrelation,
                                correlations, bestPeriod, sampleRate))

findFundamentalFrequencyWithConfidence(correlations, sampleRate, config) ==
  LET scan == ScanOf(correlations, sampleRate, config)
      maxCorrelation == scan.best.maxCorrelation
      bestPeriod == scan.best.bestPeriod
  IN IF ~scan.ended THEN Hang
     ELSE IF Lt(maxCorrelation, threshold) \/ bestPeriod = Num(0) THEN Null
     ELSE Estimate(
            parabolicInterpolation(correlations, bestPeriod, sampleRate),
            calculateConfidence(maxCorrelation,
                                scan.best.secondBestCorrelation,
                                correlations, bestPeriod, sampleRate))

(***************************************************************************)
(* PitchDetector: constructor, detectPitch, detectPitchWithConfidence,     *)
(* updateSampleRate.  A detector is the record of its two private fields.  *)
(***************************************************************************)
\* the invariant the specification states for a detection configuration:
\* 0 < minFrequency < maxFrequency < sampleRate / 2
ConfigInvariant(sampleRate, config) ==
  /\ Lt(Num(0), config.minFrequency)
  /\ Lt(config.minFrequency, config.maxFrequency)
  /\ Lt(config.maxFrequency, Div(sampleRate, Int2Num(2)))

\* a constructor that falls back to the default band and to the first
\* sample rate that fits it when its arguments break the invariant
PitchDetectorValidated(sampleRate, config) ==
  IF ConfigInvariant(sampleRate, config)
  THEN [sampleRate |-> sampleRate, config |-> config]
  ELSE [sampleRate |-> Int2Num(1000), config |-> DEFAULT_AUDIO_CONFIG]

PitchDetector(sampleRate, config) ==
  [sampleRate |-> sampleRate, config |-> config]

\* a call's outcome: what it returns (ret), the caller's array after the
\* call and the detector after the call
detectPitchWithConfidence(self, audioBuffer) ==
  IF Len(audioBuffer) = 0
  THEN [ret |-> Null, audioBuffer |-> audioBuffer, self |-> self]
  ELSE
    LET filter == applyGuitarFrequencyFilter(audioBuffer)
        correlations == autocorrelate(filter.filtered)
        result == findFundamentalFrequencyWithConfidence(
                    correlations, self.sampleRate, self.config)
    IN [audioBuffer |-> filter.buffer,
        self |-> self,
        ret |->
          IF result.k # "value" THEN result
          ELSE IF Lt(result.frequency, self.config.minFrequency)
                  \/ Gt(result.frequency, self.config.maxFrequency)
               THEN Null
               ELSE result]

\* detectPitch returns a bare frequency: the confidence field of its result
\* is not part of the value and is left NaN
Frequency(frequency) ==
  [k |-> "value", frequency |-> frequency, confidence |-> NaN]

\* detectPitch without the confidence floor
detectPitchNoFloor(self, audioBuffer) ==
  LET call == detectPitchWithConfidence(self, audioBuffer)
  IN [audioBuffer |-> call.audioBuffer,
      self |-> call.self,
      ret |-> IF call.ret.k = "value"
              THEN Frequency(call.ret.frequency) ELSE call.ret]

\* detectPitch without the test against the upper band edge
detectPitchNoBand(self, audioBuffer) ==
  IF Len(audioBuffer) = 0
  THEN [ret |-> Null, audioBuffer |-> audioBuffer, self |-> self]
  ELSE
    LET filter == applyGuitarFrequencyFilter(audioBuffer)
        correlations == autocorrelate(filter.filtered)
        result == findFundamentalFrequencyWithConfidence(
                    correlations, self.sampleRate, self.config)
    IN [audioBuffer |-> filter.buffer,
        self |-> self,
        ret |->
          IF result.k # "value" THEN result
          ELSE IF Lt(result.frequency, self.config.minFrequency)
               THEN Null
               ELSE IF Lt(result.confidence, minConfidence)
                    THEN Null
                    ELSE Frequency(result.frequency)]

detectPitch(self, audioBuffer) ==
  IF Len(audioBuffer) = 0
  THEN [ret |-> Null, audioBuffer |-> audioBuffer, self |-> self]
  ELSE
    LET filter == applyGuitarFrequencyFilter(audioBuffer)
        correlations == autocorrelate(filter.filtered)
        result == findFundamentalFrequencyWithConfidence(
                    correlations, self.sampleRate, self.config)
    IN [audioBuffer |-> filter.buffer,
        self |-> self,
        ret |->
          IF result.k # "value" THEN result
          ELSE IF Lt(result.frequency, self.config.minFrequency)
                  \/ Gt(result.frequency, self.config.maxFrequency)
               THEN Null
               ELSE IF Lt(result.confidence, minConfidence)
                    THEN Null
                    ELSE Frequency(result.frequency)]

\* an update that is lost
updateSampleRateIgnored(self, sampleRate) == self

updateSampleRate(self, sampleRate) == [self EXCEPT !.sampleRate = sampleRate]

(***************************************************************************)
(* Numbers of calculateCentsDifference.  One cent is the ratio 1.0006,     *)
(* below the resolution of the decimal numbers above, so the quotient      *)
(* frequency / targetFrequency and its logarithm are kept in binary fixed  *)
(* point with LogBits fractional bits: the integer n stands for            *)
(* n / LogOne.  NaN and the infinities are the ones above.                 *)
(***************************************************************************)
RECURSIVE Pow2(_)
Pow2(n) == IF n = 0 THEN 1 ELSE 2 * Pow2(n - 1)

LogBits == Precision + 13
LogOne == Pow2(LogBits)

\* floor(n * 2^bits / d) for n >= 0, d > 0, by long division
RECURSIVE LongDiv2(_, _, _, _)
LongDiv2(q, r, d, bits) ==
  IF bits = 0 THEN q
  ELSE LongDiv2(q * 2 + (r * 2) \div d, (r * 2) % d, d, bits - 1)

\* a / b for two decimal numbers, rounded to the nearest binary value
Quotient(a, b) ==
  CASE IsNaN(a) \/ IsNaN(b) -> NaN
    [] IsNum(a) /\ IsNum(b) ->
         IF b.v = 0
         THEN (IF a.v = 0 THEN NaN ELSE [k |-> "inf", v |-> Sgn(a.v)])
         ELSE Num(Sgn(a.v) * Sgn(b.v) *
                  ((LongDiv2(AbsInt(a.v) \div AbsInt(b.v),
                             AbsInt(a.v) % AbsInt(b.v),
                             AbsInt(b.v), LogBits + 1) + 1) \div 2))
    [] IsInf(a) /\ IsInf(b) -> NaN
    [] IsNum(a) -> Num(0)
    [] OTHER -> [k |-> "inf", v |-> a.v * (IF b.v < 0 THEN -1 ELSE 1)]

\* floor(a * b / LogOne) for binary values 0 <= a, b < 4 * LogOne, by
\* halves of LogBits bits (the product of the low halves loses its low bits)
MulFine(a, b) ==
  LET s == (LogBits + 1) \div 2
      ah == a \div Pow2(s)
      al == a % Pow2(s)
      bh == b \div Pow2(s)
      bl == b % Pow2(s)
  IN ah * bh * Pow2(2 * s - LogBits)
     + (ah * bl + al * bh + (al * bl) \div Pow2(s)) \div Pow2(LogBits - s)

\* x = m * 2^e with LogOne <= m < 2 * LogOne
RECURSIVE Normalise(_, _)
Normalise(m, e) ==
  IF m >= 2 * LogOne THEN Normalise(m \div 2, e + 1)
  ELSE IF m < LogOne THEN Normalise(m * 2, e - 1)
  ELSE [m |-> m, e |-> e]

\* the fraction bits of log2(m), one per squaring of m
RECURSIVE Log2Fraction(_, _, _)
Log2Fraction(m, bits, fraction) ==
  IF bits = 0 THEN fraction
  ELSE LET square == MulFine(m, m)
       IN IF square >= 2 * LogOne
          THEN Log2Fraction(square \div 2, bits - 1, 2 * fraction + 1)
          ELSE Log2Fraction(square, bits - 1, 2 * fraction)

\* Math.log2 taken of the magnitude of its argument
MathLog2OfMagnitude(x) ==
  CASE IsNaN(x) -> NaN
    [] IsInf(x) -> PosInf
    [] x.v = 0 -> NegInf
    [] OTHER -> LET n == Normalise(AbsInt(x.v), 0)
                IN Num(n.e * LogOne + Log2Fraction(n.m, LogBits, 0))

\* Math.log2: NaN below 0, -Infinity at 0
MathLog2(x) ==
  CASE IsNaN(x) -> NaN
    [] IsInf(x) -> IF x.v > 0 THEN PosInf ELSE NaN
    [] x.v < 0 -> NaN
    [] x.v = 0 -> NegInf
    [] OTHER -> LET n == Normalise(x.v, 0)
                IN Num(n.e * LogOne + Log2Fraction(n.m, LogBits, 0))

\* i * x for a whole number i > 0 and a binary value x
Times(i, x) == IF IsNum(x) THEN Num(i * x.v) ELSE x

\* Math.trunc of a binary value: drops the fraction
MathTrunc(x) ==
  IF IsNum(x) THEN Int2Num(Sgn(x.v) * (AbsInt(x.v) \div LogOne)) ELSE x

\* Math.round of a binary value: floor(x + 0.5), a whole decimal number
MathRound(x) ==
  IF IsNum(x) THEN Int2Num((x.v + LogOne \div 2) \div LogOne) ELSE x

\* round(a * b / LogOne) for binary values 0 <= a, b < 4 * LogOne
MulFineRounded(a, b) ==
  LET s == (LogBits + 1) \div 2
      ah == a \div Pow2(s)
      al == a % Pow2(s)
      bh == b \div Pow2(s)
      bl == b % Pow2(s)
  IN ah * bh * Pow2(2 * s - LogBits)
     + (ah * bl + al * bh + (al * bl) \div Pow2(s) + Pow2(LogBits - s - 1))
         \div Pow2(LogBits - s)

\* the square root of a binary value x < 4 * LogOne, bit by bit: the
\* largest m with m * m <= x (m holds the bits above bit)
RECURSIVE SqrtFine(_, _, _)
SqrtFine(x, bit, m) ==
  IF bit < 0 THEN m
  ELSE LET t == m + Pow2(bit)
       IN SqrtFine(x, bit - 1,
                   IF t < 4 * LogOne /\ MulFine(t, t) <= x THEN t ELSE m)

\* 2^(1/2), 2^(1/4), ... , 2^(1/2^LogBits), each the root of the one before
RECURSIVE RootsFrom(_, _)
RootsFrom(roots, last) ==
  IF Len(roots) = LogBits THEN roots
  ELSE LET root == SqrtFine(last, LogBits + 1, 0)
       IN RootsFrom(Append(roots, root), root)

RootsOfTwo == RootsFrom(<<>>, 2 * LogOne)

\* 2^(fraction / LogOne) for 0 <= fraction < LogOne: the product of the
\* roots of two at the bits of fraction that are set
RECURSIVE Pow2Fraction(_, _, _)
Pow2Fraction(fraction, i, product) ==
  IF i > LogBits THEN product
  ELSE Pow2Fraction(fraction, i + 1,
         IF (fraction \div Pow2(LogBits - i)) % 2 = 1
         THEN MulFineRounded(product, RootsOfTwo[i])
         ELSE product)

\* Math.pow(2, x) for a finite binary value x
MathPow2(x) ==
  LET whole == x.v \div LogOne
      mantissa == Pow2Fraction(x.v % LogOne, 1, LogOne)
  IN IF whole >= 0 THEN Num(mantissa * Pow2(whole))
     ELSE Num((mantissa + Pow2(0 - whole) \div 2) \div Pow2(0 - whole))

\* a * x for a decimal number a >= 0 and a binary value x >= 0, rounded to
\* the nearest decimal value
TimesFine(a, x) ==
  LET s == (LogBits + 1) \div 2
      xh == x.v \div Pow2(s)
      xl == x.v % Pow2(s)
  IN Num((a.v * xh + (a.v * xl) \div Pow2(s) + Pow2(LogBits - s - 1))
           \div Pow2(LogBits - s))

(***************************************************************************)
(* TunerEngine                                                             *)
(***************************************************************************)
\* a frequency given in Hz with three decimals, as thousandths
MilliHz(n) == Num(n * (ONE \div 1000))

\* GUITAR_TUNING, in the order of its keys
GUITAR_TUNING ==
  << [note |-> "E2", frequency |-> MilliHz(82410)],
     [note |-> "A2", frequency |-> MilliHz(110000)],
     [note |-> "D3", frequency |-> MilliHz(146830)],
     [note |-> "G3", frequency |-> MilliHz(196000)],
     [note |-> "B3", frequency |-> MilliHz(246940)],
     [note |-> "E4", frequency |-> MilliHz(329630)] >>

\* GUITAR_TUNING[note]
TuningOf(note) ==
  (CHOOSE entry \in {GUITAR_TUNING[i] : i \in 1..Len(GUITAR_TUNING)} :
     entry.note = note).frequency

TUNING_TOLERANCE_CENTS == 5

\* one entry put into an ascending array, behind the entries that compare
\* equal to it (Array.prototype.sort is stable)
RECURSIVE InsertSorted(_, _)
InsertSorted(sorted, entry) ==
  IF sorted = <<>> THEN <<entry>>
  ELSE IF Gt(Sub(sorted[Len(sorted)].frequency, entry.frequency), Num(0))
       THEN Append(InsertSorted(SubSeq(sorted, 1, Len(sorted) - 1), entry),
                   sorted[Len(sorted)])
       ELSE Append(sorted, entry)

\* entries.sort((a, b) => a.frequency - b.frequency)
RECURSIVE SortByFrequency(_, _, _)
SortByFrequency(entries, i, sorted) ==
  IF i > Len(entries) THEN sorted
  ELSE SortByFrequency(entries, i + 1, InsertSorted(sorted, entries[i]))

\* the constructor: the tuner is its one field, guitarNotes
TunerEngine == SortByFrequency(GUITAR_TUNING, 1, <<>>)

\* the loop with <= in place of <
RECURSIVE ClosestLoopLastWins(_, _, _, _)
ClosestLoopLastWins(guitarNotes, frequency, i, closest) ==
  IF i > Len(guitarNotes) THEN closest
  ELSE
    LET noteData == guitarNotes[i]
        difference == MathAbs(Sub(frequency, noteData.frequency))
    IN ClosestLoopLastWins(guitarNotes, frequency, i + 1,
         IF Le(difference, closest.minDifference)
         THEN [closestNote |-> noteData, minDifference |-> difference]
         ELSE closest)

\* the loop of getClosestGuitarNote over guitarNotes[i..]; closest holds
\* closestNote and minDifference
RECURSIVE ClosestLoop(_, _, _, _)
ClosestLoop(guitarNotes, frequency, i, closest) ==
  IF i > Len(guitarNotes) THEN closest
  ELSE
    LET noteData == guitarNotes[i]
        difference == MathAbs(Sub(frequency, noteData.frequency))
    IN ClosestLoop(guitarNotes, frequency, i + 1,
         IF Lt(difference, closest.minDifference)
         THEN [closestNote |-> noteData, minDifference |-> difference]
         ELSE closest)

getClosestGuitarNote(guitarNotes, frequency) ==
  ClosestLoop(guitarNotes, frequency, 1,
              [closestNote |-> guitarNotes[1],
               minDifference |->
                 MathAbs(Sub(frequency, guitarNotes[1].frequency))]
             ).closestNote.note

\* 1200 * Math.log2(frequency / targetFrequency), before it is rounded
CentsBeforeRounding(frequency, targetFrequency) ==
  Times(1200, MathLog2(Quotient(frequency, targetFrequency)))

\* the cents of the reference above the frequency: the quotient inverted
calculateCentsDifferenceInverted(frequency, targetFrequency) ==
  MathRound(CentsBeforeRounding(targetFrequency, frequency))

\* Math.round(1200 * Math.log2(frequency / targetFrequency))
calculateCentsDifference(frequency, targetFrequency) ==
  MathRound(CentsBeforeRounding(frequency, targetFrequency))

\* analyzeNote with the tolerance itself counted as out of tune
analyzeNoteStrictTolerance(guitarNotes, frequency, confidence) ==
  LET closestNote == getClosestGuitarNote(guitarNotes, frequency)
      targetFrequency == TuningOf(closestNote)
      cents == calculateCentsDifference(frequency, targetFrequency)
      isInTune == Lt(MathAbs(cents), Int2Num(TUNING_TOLERANCE_CENTS))
  IN [frequency |-> frequency,
      note |-> closestNote,
      cents |-> cents,
      isInTune |-> isInTune,
      confidence |-> confidence]

\* the NoteData analyzeNote returns
analyzeNote(guitarNotes, frequency, confidence) ==
  LET closestNote == getClosestGuitarNote(guitarNotes, frequency)
      targetFrequency == TuningOf(closestNote)
      cents == calculateCentsDifference(frequency, targetFrequency)
      isInTune == Le(MathAbs(cents), Int2Num(TUNING_TOLERANCE_CENTS))
  IN [frequency |-> frequency,
      note |-> closestNote,
      cents |-> cents,
      isInTune |-> isInTune,
      confidence |-> confidence]

(***************************************************************************)
(* AudioManager: microphone, audio context and captured frames             *)
(***************************************************************************)
\* the values of ErrorType
MIC_ACCESS_DENIED == "mic-access-denied"
MIC_NOT_AVAILABLE == "mic-not-available"
BROWSER_NOT_SUPPORTED == "browser-not-supported"
AUDIO_CONTEXT_ERROR == "audio-context-error"
UNKNOWN_ERROR == "unknown-error"
ErrorType ==
  {MIC_ACCESS_DENIED, MIC_NOT_AVAILABLE, BROWSER_NOT_SUPPORTED,
   AUDIO_CONTEXT_ERROR, "low-volume", "audio-processing-error",
   "initialization-error", UNKNOWN_ERROR}

\* what a step threw: nothing, an Error with a name and a message, or a
\* value that is no Error
NoError == [k |-> "none", name |-> "", message |-> ""]
NamedError(name, message) == [k |-> "error", name |-> name, message |-> message]
Error(message) == NamedError("Error", message)
NotAnError == [k |-> "value", name |-> "", message |-> ""]

\* new Float32Array(n), a filled Float32Array, and the null buffer
Zeros(n) == [i \in 1..n |-> Num(0)]
Float32Array(samples) == [null |-> FALSE, samples |-> samples]
NoBuffer == [null |-> TRUE, samples |-> <<>>]

\* new AudioManager(config): the fields, null references as 0; of the
\* configuration the threshold is kept
AudioManager(minVolumeThreshold) ==
  [audioContext |-> 0, mediaStream |-> 0, analyser |-> 0, microphone |-> 0,
   audioBuffer |-> NoBuffer, minVolumeThreshold |-> minVolumeThreshold,
   isInitialized |-> FALSE, isRecording |-> FALSE]

\* the largest r with r * r <= n in lo..hi, by bisection
RECURSIVE IntegerRoot(_, _, _)
IntegerRoot(n, lo, hi) ==
  IF lo >= hi THEN lo
  ELSE LET mid == (lo + hi + 1) \div 2
       IN IF mid * mid <= n THEN IntegerRoot(n, mid, hi)
          ELSE IntegerRoot(n, lo, mid - 1)

\* Math.sqrt, rounded to the nearest value of the number grid
MathSqrt(a) ==
  CASE IsNaN(a) -> NaN
    [] IsInf(a) -> IF a.v > 0 THEN PosInf ELSE NaN
    [] a.v < 0 -> NaN
    [] OTHER -> Num((IntegerRoot(4 * a.v * ONE, 0, Pow2(15) - 1) + 1) \div 2)

\* the loop of hasMinimumVolume: sum += buffer[i] * buffer[i]
RECURSIVE SumSquares(_, _, _)
SumSquares(buffer, i, sum) ==
  IF i > Len(buffer) THEN sum
  ELSE SumSquares(buffer, i + 1, Add(sum, Mul(buffer[i], buffer[i])))

\* Math.sqrt(sum / buffer.length)
RootMeanSquare(buffer) ==
  MathSqrt(Div(SumSquares(buffer, 1, Num(0)), Int2Num(Len(buffer))))

hasMinimumVolume(self, buffer) ==
  Gt(RootMeanSquare(buffer), self.minVolumeThreshold)

\* track.stop() on every track of a stream
StopTracks(mediaStreams, id) == [mediaStreams EXCEPT ![id] = "stopped"]

\* cleanup(): the flags are cleared, the held stream is stopped and dropped,
\* the held context is closed and dropped unless it is closed already, and
\* the nodes and the buffer are dropped
cleanup(self, mediaStreams, audioContexts) ==
  LET open == self.audioContext # 0
              /\ audioContexts[self.audioContext] # "closed"
  IN [self |->
        [self EXCEPT !.isRecording = FALSE, !.isInitialized = FALSE,
                     !.mediaStream = 0,
                     !.audioContext = IF open THEN 0 ELSE @,
                     !.analyser = 0, !.microphone = 0,
                     !.audioBuffer = NoBuffer],
      mediaStreams |->
        IF self.mediaStream # 0
        THEN StopTracks(mediaStreams, self.mediaStream)
        ELSE mediaStreams,
      audioContexts |->
        IF open THEN [audioContexts EXCEPT ![self.audioContext] = "closed"]
        ELSE audioContexts]

\* the catch block of requestMicrophoneAccess: what is thrown on
BrowserError(error) ==
  CASE error.k # "error" -> Error(UNKNOWN_ERROR)
    [] error.message \in ErrorType -> error
    [] error.name \in {"NotAllowedError", "PermissionDeniedError"} ->
         Error(MIC_ACCESS_DENIED)
    [] error.name \in {"NotFoundError", "DevicesNotFoundError",
                       "NotReadableError", "TrackStartError",
                       "OverconstrainedError", "ConstraintNotSatisfiedError"} ->
         Error(MIC_NOT_AVAILABLE)
    [] error.name = "NotSupportedError" -> Error(BROWSER_NOT_SUPPORTED)
    [] OTHER -> Error(UNKNOWN_ERROR)

\* requestMicrophoneAccess(): getUserMedia rejects, or resolves with a
\* stream that takes the place of the one held; a stream without tracks or
\* with a disabled audio track is refused
requestMicrophoneAccess(self, mediaStreams, getUserMedia) ==
  IF getUserMedia.k = "rejects"
  THEN [self |-> self, mediaStreams |-> mediaStreams,
        thrown |-> BrowserError(getUserMedia.error)]
  ELSE [self |-> [self EXCEPT !.mediaStream = Len(mediaStreams) + 1],
        mediaStreams |-> Append(mediaStreams, getUserMedia.tracks),
        thrown |-> IF getUserMedia.tracks = "live" THEN NoError
                   ELSE Error(MIC_NOT_AVAILABLE)]

\* initializeAudioContext(): the constructor throws, or the new context
\* takes the place of the one held; a suspended context is resumed, and a
\* context found closed is an error
initializeAudioContext(self, audioContexts, construction) ==
  IF construction = "throws"
  THEN [self |-> self, audioContexts |-> audioContexts,
        thrown |-> Error(AUDIO_CONTEXT_ERROR)]
  ELSE [self |-> [self EXCEPT !.audioContext = Len(audioContexts) + 1],
        audioContexts |->
          Append(audioContexts,
                 CASE construction \in {"running", "resumed"} -> "running"
                   [] construction = "resumeRejects" -> "suspended"
                   [] OTHER -> "closed"),
        thrown |-> IF construction \in {"running", "resumed"} THEN NoError
                   ELSE Error(AUDIO_CONTEXT_ERROR)]

\* setupAudioPipeline(): the source node, the analyser and the buffer, in
\* this order; creating the source or sizing the analyser may throw
setupAudioPipeline(self, pipeline) ==
  CASE self.audioContext = 0 \/ self.mediaStream = 0 ->
         [self |-> self,
          thrown |-> Error("AudioContext or MediaStream not available")]
    [] pipeline = "sourceThrows" ->
         [self |-> self, thrown |-> NamedError("InvalidStateError", "")]
    [] pipeline = "fftSizeThrows" ->
         [self |-> [self EXCEPT !.microphone = self.audioContext,
                                !.analyser = self.audioContext],
          thrown |-> NamedError("IndexSizeError", "")]
    [] OTHER ->
         [self |-> [self EXCEPT !.microphone = self.audioContext,
                                !.analyser = self.audioContext,
                                !.audioBuffer = Float32Array(Zeros(ShortLen))],
          thrown |-> NoError]

\* handleError(): an Error that carries an ErrorType value is kept, anything
\* else becomes an unknown error
handleError(error) ==
  IF error.k = "error" /\ error.message \in ErrorType THEN error
  ELSE Error(UNKNOWN_ERROR)

\* the try block of initialize(): the steps up to the first that throws
InitializeSteps(self, mediaStreams, audioContexts, browser) ==
  IF ~browser.supported
  THEN [self |-> self, mediaStreams |-> mediaStreams,
        audioContexts |-> audioContexts,
        thrown |-> Error(BROWSER_NOT_SUPPORTED)]
  ELSE
    LET mic == requestMicrophoneAccess(self, mediaStreams, browser.getUserMedia)
        context == initializeAudioContext(mic.self, audioContexts,
                                          browser.construction)
        nodes == setupAudioPipeline(context.self, browser.pipeline)
    IN CASE mic.thrown # NoError ->
              [self |-> mic.self, mediaStreams |-> mic.mediaStreams,
               audioContexts |-> audioContexts, thrown |-> mic.thrown]
         [] context.thrown # NoError ->
              [self |-> context.self, mediaStreams |-> mic.mediaStreams,
               audioContexts |-> context.audioContexts,
               thrown |-> context.thrown]
         [] nodes.thrown # NoError ->
              [self |-> nodes.self, mediaStreams |-> mic.mediaStreams,
               audioContexts |-> context.audioContexts,
               thrown |-> nodes.thrown]
         [] OTHER ->
              [self |-> [nodes.self EXCEPT !.isInitialized = TRUE],
               mediaStreams |-> mic.mediaStreams,
               audioContexts |-> context.audioContexts,
               thrown |-> NoError]

\* initialize(): on a throw the manager is cleaned up and the promise
\* rejects with what handleError makes of the error
initialize(self, mediaStreams, audioContexts, browser) ==
  LET try == InitializeSteps(self, mediaStreams, audioContexts, browser)
      catch == cleanup(try.self, try.mediaStreams, try.audioContexts)
  IN IF try.thrown = NoError
     THEN [self |-> try.self, mediaStreams |-> try.mediaStreams,
           audioContexts |-> try.audioContexts, rejected |-> NoError]
     ELSE [self |-> catch.self, mediaStreams |-> catch.mediaStreams,
           audioContexts |-> catch.audioContexts,
           rejected |-> handleError(try.thrown)]

\* no initialize() is in flight
NotInitializing ==
  [at |-> "none", browser |-> <<>>, thrown |-> NoError, context |-> 0]

\* no cleanup() is in flight
NotCleaning == [at |-> "none", context |-> 0]

\* cleanup() up to its await: the flags are cleared and the held stream is
\* stopped and dropped; close() is called on a held context that is not
\* closed, and that context is remembered in closing (0: nothing to await)
cleanupUntilClose(self, mediaStreams, audioContexts) ==
  [self |-> [self EXCEPT !.isRecording = FALSE, !.isInitialized = FALSE,
                         !.mediaStream = 0],
   mediaStreams |->
     IF self.mediaStream # 0 THEN StopTracks(mediaStreams, self.mediaStream)
     ELSE mediaStreams,
   closing |->
     IF self.audioContext # 0 /\ audioContexts[self.audioContext] # "closed"
     THEN self.audioContext ELSE 0]

\* cleanup() after its await: the context that was closing is closed, the
\* field audioContext is cleared if close() was awaited, and the nodes and
\* the buffer are dropped
cleanupAfterClose(self, audioContexts, closing) ==
  [self |-> [self EXCEPT !.audioContext = IF closing # 0 THEN 0 ELSE @,
                         !.analyser = 0, !.microphone = 0,
                         !.audioBuffer = NoBuffer],
   audioContexts |->
     IF closing # 0 THEN [audioContexts EXCEPT ![closing] = "closed"]
     ELSE audioContexts]

\* the promise of initialize() settles: resolved, or rejected with an error
Settled(self, mediaStreams, audioContexts, rejected) ==
  [self |-> self, mediaStreams |-> mediaStreams,
   audioContexts |-> audioContexts, initializing |-> NotInitializing,
   settled |-> TRUE, rejected |-> rejected]

\* initialize() stays in flight at an await
Awaiting(self, mediaStreams, audioContexts, at, browser, thrown, context) ==
  [self |-> self, mediaStreams |-> mediaStreams,
   audioContexts |-> audioContexts,
   initializing |-> [at |-> at, browser |-> browser, thrown |-> thrown,
                     context |-> context],
   settled |-> FALSE, rejected |-> NoError]

\* the catch block of initialize(): await this.cleanup(), which waits for
\* close() only if a context is open, then throw this.handleError(error)
initializeCatch(self, mediaStreams, audioContexts, browser, thrown) ==
  LET until == cleanupUntilClose(self, mediaStreams, audioContexts)
      after == cleanupAfterClose(until.self, audioContexts, 0)
  IN IF until.closing = 0
     THEN Settled(after.self, until.mediaStreams, after.audioContexts,
                  handleError(thrown))
     ELSE Awaiting(until.self, until.mediaStreams, audioContexts, "close",
                   browser, thrown, until.closing)

\* initialize() once close() has answered in its catch block
initializeAfterClose(self, mediaStreams, audioContexts, initializing) ==
  LET after == cleanupAfterClose(self, audioContexts, initializing.context)
  IN Settled(after.self, mediaStreams, after.audioContexts,
             handleError(initializing.thrown))

\* initialize() from a context that initializeAudioContext() has left:
\* setupAudioPipeline() and this.isInitialized = true
initializeFromContext(context, mediaStreams, browser) ==
  LET nodes == setupAudioPipeline(context.self, browser.pipeline)
  IN CASE context.thrown # NoError ->
            initializeCatch(context.self, mediaStreams, context.audioContexts,
                            browser, context.thrown)
       [] nodes.thrown # NoError ->
            initializeCatch(nodes.self, mediaStreams, context.audioContexts,
                            browser, nodes.thrown)
       [] OTHER ->
            Settled([nodes.self EXCEPT !.isInitialized = TRUE], mediaStreams,
                    context.audioContexts, NoError)

\* initialize() up to await getUserMedia(): an unsupported browser goes to
\* the catch block
initializeUntilGetUserMedia(self, mediaStreams, audioContexts, browser) ==
  IF ~browser.supported
  THEN initializeCatch(self, mediaStreams, audioContexts, browser,
                       Error(BROWSER_NOT_SUPPORTED))
  ELSE Awaiting(self, mediaStreams, audioContexts, "getUserMedia", browser,
                NoError, 0)

\* initialize() once getUserMedia() has answered: the stream is checked and
\* the context constructed; a context that is constructed suspended is
\* resumed and the resume awaited
initializeAfterGetUserMedia(self, mediaStreams, audioContexts, browser) ==
  LET mic == requestMicrophoneAccess(self, mediaStreams, browser.getUserMedia)
      context == initializeAudioContext(mic.self, audioContexts,
                                        browser.construction)
  IN CASE mic.thrown # NoError ->
            initializeCatch(mic.self, mic.mediaStreams, audioContexts, browser,
                            mic.thrown)
       [] browser.construction \in {"resumed", "resumeRejects"} ->
            Awaiting([mic.self EXCEPT !.audioContext = Len(audioContexts) + 1],
                     mic.mediaStreams, Append(audioContexts, "suspended"),
                     "resume", browser, NoError, Len(audioContexts) + 1)
       [] OTHER -> initializeFromContext(context, mic.mediaStreams, browser)

\* initialize() once resume() has answered: a rejection, a field
\* audioContext that a cleanup() has cleared meanwhile (reading its state
\* throws) and a context found closed are errors of the audio context
initializeAfterResume(self, mediaStreams, audioContexts, initializing) ==
  LET resumed ==
        IF initializing.browser.construction = "resumed"
           /\ audioContexts[initializing.context] # "closed"
        THEN [audioContexts EXCEPT ![initializing.context] = "running"]
        ELSE audioContexts
      thrown ==
        IF \/ initializing.browser.construction = "resumeRejects"
           \/ self.audioContext = 0
           \/ resumed[self.audioContext] = "closed"
        THEN Error(AUDIO_CONTEXT_ERROR) ELSE NoError
  IN initializeFromContext([self |-> self, audioContexts |-> resumed,
                            thrown |-> thrown],
                           mediaStreams, initializing.browser)

\* startRecording() that sets the flag whether or not the manager is
\* initialized
startRecordingUnchecked(self, audioContexts) ==
  [self |-> [self EXCEPT !.isRecording = TRUE],
   audioContexts |->
     IF self.audioContext # 0
        /\ audioContexts[self.audioContext] = "suspended"
     THEN [audioContexts EXCEPT ![self.audioContext] = "running"]
     ELSE audioContexts,
   thrown |-> NoError]

\* startRecording(): throws before initialization; resumes a suspended
\* context and sets the flag
startRecording(self, audioContexts) ==
  IF ~self.isInitialized
  THEN [self |-> self, audioContexts |-> audioContexts,
        thrown |-> Error("AudioManager is not initialized. Call initialize() first.")]
  ELSE [self |-> [self EXCEPT !.isRecording = TRUE],
        audioContexts |->
          IF self.audioContext # 0
             /\ audioContexts[self.audioContext] = "suspended"
          THEN [audioContexts EXCEPT ![self.audioContext] = "running"]
          ELSE audioContexts,
        thrown |-> NoError]

\* stopRecording(): clears the flag and suspends a running context
stopRecording(self, audioContexts) ==
  [self |-> [self EXCEPT !.isRecording = FALSE],
   audioContexts |->
     IF self.audioContext # 0 /\ audioContexts[self.audioContext] = "running"
     THEN [audioContexts EXCEPT ![self.audioContext] = "suspended"]
     ELSE audioContexts]

\* getAudioData() that does not look at the recording flag
getAudioDataWhileStopped(self, frame) ==
  IF ~self.isInitialized \/ self.analyser = 0 \/ self.audioBuffer.null
  THEN [self |-> self, ret |-> <<>>]
  ELSE [self |-> [self EXCEPT !.audioBuffer = Float32Array(frame)],
        ret |-> IF ~hasMinimumVolume(self, frame) THEN <<>> ELSE frame]

\* getAudioData(): empty unless initialized and recording; the analyser
\* writes the frame into the buffer; empty below the volume threshold,
\* otherwise a copy of the buffer
getAudioData(self, frame) ==
  IF ~self.isInitialized \/ ~self.isRecording
     \/ self.analyser = 0 \/ self.audioBuffer.null
  THEN [self |-> self, ret |-> <<>>]
  ELSE [self |-> [self EXCEPT !.audioBuffer = Float32Array(frame)],
        ret |-> IF ~hasMinimumVolume(self, frame) THEN <<>> ELSE frame]

(***************************************************************************)
(* ThemeManager: preference, system theme and applied theme                *)
(***************************************************************************)
\* BrowserSupport with nothing supported, as resetProperties leaves it
NoSupport ==
  [cssVariables |-> FALSE, matchMedia |-> FALSE, localStorage |-> FALSE,
   prefersColorScheme |-> FALSE, modernEventListeners |-> FALSE]

\* detectBrowserSupport(): what the window offers; the two media query
\* features are looked for only where matchMedia exists
detectBrowserSupport(window) ==
  [cssVariables |-> window.cssVariables,
   matchMedia |-> window.matchMedia,
   localStorage |-> window.localStorage,
   prefersColorScheme |-> window.matchMedia /\ window.prefersColorScheme,
   modernEventListeners |->
     window.matchMedia /\ window.listenerApi = "modern"]

\* the field initializers of the class; null and absent entries as "none"
ThemeManagerFields ==
  [currentTheme |-> "light", themePreference |-> "system",
   systemTheme |-> "light", mediaQuery |-> FALSE, fallbackMode |-> FALSE,
   browserSupport |-> NoSupport, memoryStorage |-> "none"]

isValidThemePreference(value) == value \in {"light", "dark", "system"}

\* detectSystemTheme(): light unless the dark media query is supported
\* and matches
detectSystemTheme(self, systemDark) ==
  IF ~self.browserSupport.matchMedia THEN "light"
  ELSE IF ~self.browserSupport.prefersColorScheme THEN "light"
  ELSE IF systemDark THEN "dark" ELSE "light"

\* loadSavedTheme(): the valid preference stored in localStorage, or in the
\* memory storage where localStorage is unsupported; "none" for null
loadSavedTheme(self, storedTheme) ==
  LET stored == IF self.browserSupport.localStorage THEN storedTheme
                ELSE self.memoryStorage
  IN IF isValidThemePreference(stored) THEN stored ELSE "none"

saveToMemoryStorage(world, preference) ==
  [world EXCEPT !.self.memoryStorage = preference]

\* saveToLocalStorage(): setItem stores the preference, or throws and the
\* memory storage takes it
saveToLocalStorage(world, preference, setItemThrows) ==
  IF setItemThrows THEN saveToMemoryStorage(world, preference)
  ELSE [world EXCEPT !.storedTheme = preference]

\* saveTheme(): an invalid preference is not saved
saveTheme(world, preference, setItemThrows) ==
  IF ~isValidThemePreference(preference) THEN world
  ELSE IF world.self.browserSupport.localStorage
       THEN saveToLocalStorage(world, preference, setItemThrows)
       ELSE saveToMemoryStorage(world, preference)

updateCurrentTheme(self) ==
  [self EXCEPT !.currentTheme =
     IF self.themePreference = "system" THEN self.systemTheme
     ELSE self.themePreference]

\* applyTheme(): the data-theme attribute of the root element
applyTheme(world, theme) == [world EXCEPT !.dataTheme = theme]

\* setupPollingFallback(): an interval, only under the system preference
setupPollingFallback(world) ==
  IF world.self.themePreference # "system" THEN world
  ELSE [world EXCEPT !.polling = TRUE]

\* this.onSystemThemeChange.bind(this): a function object that is new at
\* every evaluation
Bind(listeners) ==
  CHOOSE function \in 1..(Cardinality(listeners) + 1) : function \notin listeners

\* setupSystemThemeListener(): a new bound handler is registered with
\* addEventListener or addListener; without either, polling starts
setupSystemThemeListener(world, window) ==
  IF ~world.self.browserSupport.matchMedia
     \/ ~world.self.browserSupport.prefersColorScheme
  THEN world
  ELSE LET query == [world EXCEPT !.self.mediaQuery = TRUE]
       IN IF (world.self.browserSupport.modernEventListeners
              /\ window.listenerApi = "modern")
             \/ window.listenerApi \in {"modern", "legacy"}
          THEN [query EXCEPT !.listeners = @ \cup {Bind(@)}]
          ELSE setupPollingFallback(query)

\* a handler that lets the applied theme follow under every preference
onSystemThemeChangeAlways(world, matches) ==
  LET recorded ==
        [world EXCEPT !.self.systemTheme = IF matches THEN "dark" ELSE "light",
                      !.self.currentTheme = IF matches THEN "dark" ELSE "light"]
  IN applyTheme(recorded, recorded.self.currentTheme)

\* onSystemThemeChange(): the system theme is recorded; the applied theme
\* follows only under the system preference
onSystemThemeChange(world, matches) ==
  LET recorded ==
        [world EXCEPT !.self.systemTheme = IF matches THEN "dark" ELSE "light"]
      updated == [recorded EXCEPT !.self = updateCurrentTheme(@)]
  IN IF recorded.self.themePreference = "system"
     THEN applyTheme(updated, updated.self.currentTheme)
     ELSE recorded

\* the interval callback of setupPollingFallback
PollingCallback(world, systemDark) ==
  IF world.self.themePreference # "system" THEN [world EXCEPT !.polling = FALSE]
  ELSE LET currentSystemTheme == detectSystemTheme(world.self, systemDark)
           recorded == [world EXCEPT !.self.systemTheme = currentSystemTheme]
           updated == [recorded EXCEPT !.self = updateCurrentTheme(@)]
       IN IF currentSystemTheme # world.self.systemTheme
          THEN applyTheme(updated, updated.self.currentTheme)
          ELSE world

\* ThemeManager.initialize(): detect, load, apply, listen
initializeTheme(world, window, systemDark) ==
  LET savedTheme == loadSavedTheme(world.self, world.storedTheme)
      loaded ==
        [world EXCEPT
           !.self.systemTheme = detectSystemTheme(world.self, systemDark),
           !.self.themePreference = IF savedTheme # "none" THEN savedTheme ELSE @]
      updated == [loaded EXCEPT !.self = updateCurrentTheme(@)]
  IN setupSystemThemeListener(applyTheme(updated, updated.self.currentTheme),
                              window)

\* new ThemeManager(): support is detected, then initialize() runs
ThemeManager(window, systemDark, storedTheme) ==
  initializeTheme(
    [self |-> [ThemeManagerFields EXCEPT
                 !.browserSupport = detectBrowserSupport(window),
                 !.fallbackMode = ~window.cssVariables],
     listeners |-> {}, polling |-> FALSE, dataTheme |-> "none",
     storedTheme |-> storedTheme],
    window, systemDark)

\* setTheme(): the preference is stored as given, the applied theme
\* follows, and the preference is saved
setTheme(world, theme, setItemThrows) ==
  LET preferred == [world EXCEPT !.self.themePreference = theme]
      updated == [preferred EXCEPT !.self = updateCurrentTheme(@)]
  IN saveTheme(applyTheme(updated, updated.self.currentTheme), theme,
               setItemThrows)

toggleTheme(world, setItemThrows) ==
  setTheme(world, IF world.self.currentTheme = "light" THEN "dark" ELSE "light",
           setItemThrows)

\* cleanupSystemThemeListener(): removeEventListener or removeListener is
\* given a newly bound function, and the media query is dropped
cleanupSystemThemeListener(world, window) ==
  IF ~world.self.mediaQuery THEN world
  ELSE IF (world.self.browserSupport.modernEventListeners
           /\ window.listenerApi = "modern")
          \/ window.listenerApi \in {"modern", "legacy"}
       THEN [world EXCEPT !.listeners = @ \ {Bind(@)},
                          !.self.mediaQuery = FALSE]
       ELSE [world EXCEPT !.self.mediaQuery = FALSE]

resetProperties(self) ==
  [self EXCEPT !.currentTheme = "light", !.themePreference = "system",
               !.systemTheme = "light", !.fallbackMode = FALSE,
               !.browserSupport = NoSupport]

\* destroy(): listener cleanup, memory storage cleared, properties reset
destroy(world, window) ==
  LET cleaned == cleanupSystemThemeListener(world, window)
  IN [cleaned EXCEPT
        !.self = resetProperties([cleaned.self EXCEPT !.memoryStorage = "none"])]

(***************************************************************************)
(* Inputs: frames, sample rates and configurations                         *)
(***************************************************************************)
\* the amplitude 0.5 the tests use
Half == Num(ONE \div 2)

\* samples of the short frames: finite and non-finite
ShortSamples == {Num(0), Half, NaN, PosInf, NegInf}

RECURSIVE SeqsOfLen(_, _)
SeqsOfLen(S, n) ==
  IF n = 0 THEN {<<>>}
  ELSE {Append(q, x) : q \in SeqsOfLen(S, n - 1), x \in S}

ShortFrames == UNION {SeqsOfLen(ShortSamples, n) : n \in 0..ShortLen}

\* constant (DC) frames, the all-zero frame among them
ConstantFrames ==
  {[i \in 1..n |-> v] : n \in 1..MaxLen,
                        v \in {Num(0), Half, Neg(Half), Num(ONE \div 3)}}

\* silence, then pattern repeated up to length samples
Tone(pattern, silence, length) ==
  [i \in 1..length |->
     IF i <= silence THEN Num(0)
     ELSE pattern[((i - silence - 1) % Len(pattern)) + 1]]

Patterns == {<<Half, Neg(Half)>>,
             <<Half, Neg(Half), Num(0)>>,
             <<Half, Half, Neg(Half), Neg(Half)>>}

ToneFrames ==
  {Tone(p, z, n) : p \in Patterns, z \in 0..MaxSilence, n \in (MaxLen - 2)..MaxLen}

\* a tone with one sample replaced by a non-finite value
HostileFrames ==
  {[Tone(<<Half, Neg(Half)>>, 1, n) EXCEPT ![at] = x] :
     n \in (MaxLen - 2)..MaxLen, at \in {1, MaxLen \div 2, MaxLen - 2},
     x \in {NaN, PosInf, NegInf}}

Frames == ShortFrames \cup ConstantFrames \cup ToneFrames \cup HostileFrames

\* sample rates given to the constructor and to updateSampleRate
Rates == {Int2Num(1000), Int2Num(800), Int2Num(280), Num(0), Int2Num(-800)}

\* configurations given to the constructor: the default band, an inverted
\* band and a band whose upper edge is 0
Configs == {DEFAULT_AUDIO_CONFIG,
            AudioConfig(Int2Num(400), Int2Num(70)),
            AudioConfig(Int2Num(70), Num(0))}

\* correlation arrays handed straight to the selector: every short array
\* over a few values, and longer arrays that alternate between the values
\* at the even lags and one value at the odd lags
CorrelationValues == {Neg(Half), Num(0), Num(ONE \div 5), Half, Int2Num(1)}

EvenLagValues == CorrelationValues \cup {Int2Num(-1)}

ShortShapes == UNION {SeqsOfLen(CorrelationValues, n) : n \in 0..ShortLags}

PeakedShapes ==
  {[i \in 1..n |-> IF i % 2 = 1 THEN even[(i + 1) \div 2] ELSE odd] :
     n \in {MaxLags}, even \in SeqsOfLen(EvenLagValues, (MaxLags + 1) \div 2),
     odd \in {Num(0), Neg(Half)}}

CorrelationShapes == ShortShapes \cup PeakedShapes

\* the arrays the private stages of the detector are applied to: the
\* frames for every stage, the correlation arrays for the selector
StageArrays == Frames \cup CorrelationShapes

\* the detectors whose stages are applied: the default band at 500 Hz and
\* at 280 Hz
StageDetectors ==
  {PitchDetector(sampleRate, DEFAULT_AUDIO_CONFIG) :
     sampleRate \in {Int2Num(500), Int2Num(280)}}

\* frequencies given to analyzeNote: the references, the midpoints of
\* neighbouring references, frequencies half a cent step off a reference
\* (2^(1/32) is 37.5 cents), each with the frequencies next to it, and the
\* frequencies of the tests, zero and a negative one among them
Midpoints ==
  {Num((TunerEngine[i].frequency.v + TunerEngine[i + 1].frequency.v) \div 2) :
     i \in 1..(Len(TunerEngine) - 1)}

HalfCentSteps ==
  {MilliHz(80644), MilliHz(84216), MilliHz(107643), MilliHz(112410),
   MilliHz(191801), MilliHz(200295), MilliHz(322568), MilliHz(336853)}

Near(frequencies) ==
  {Num(f.v + d) : f \in frequencies, d \in (0 - Spread)..Spread}

\* samples of the frames the analyser holds
AudioSamples == {Num(0), Num((3 * ONE) \div 10), Half, Int2Num(1), NaN}

\* the time-domain frames getFloatTimeDomainData writes: every sample the
\* same, or only the first sample not zero
CapturedFrames ==
  {[i \in 1..ShortLen |-> sample] : sample \in AudioSamples}
  \cup {[i \in 1..ShortLen |-> IF i = 1 THEN sample ELSE Num(0)] :
          sample \in AudioSamples}

\* the frames the analyser holds while the app runs: silence and a loud
\* frame
AppFrames == {Zeros(ShortLen), [i \in 1..ShortLen |-> Half]}

\* what one run of processAudio meets: a frame before the update interval
\* has passed, or samples that some call throws on, or samples that
\* detection and shouldUpdateUI treat in one of their ways
FrameInputs ==
  {[early |-> TRUE, samples |-> Zeros(ShortLen), detection |-> "noPitch",
    throws |-> "none"]}
  \cup [early : {FALSE}, samples : AppFrames, detection : {"noPitch"},
        throws : {"minor", "critical"}]
  \cup [early : {FALSE}, samples : AppFrames,
        detection : {"noPitch", "lowConfidence", "updated", "held"},
        throws : {"none"}]

\* minVolumeThreshold: the default 0.01, and the 0.5 and 0.9 of the tests
Thresholds == {Num(ONE \div 100), Half, Num((9 * ONE) \div 10)}

\* what getUserMedia rejects with: a DOMException name of every case the
\* code tells apart, an error that carries an ErrorType value, and a value
\* that is no Error
Rejections ==
  {NamedError(name, "Permission denied") :
     name \in {"NotAllowedError", "NotFoundError", "NotReadableError",
               "OverconstrainedError", "NotSupportedError", "AbortError",
               "Error"}}
  \cup {Error(MIC_NOT_AVAILABLE), NotAnError}

\* getUserMedia: a stream with a live audio track, without tracks or with
\* a disabled track, or a rejection
GetUserMediaOutcomes ==
  {[k |-> "resolves", tracks |-> tracks, error |-> NoError] :
     tracks \in {"live", "none", "disabled"}}
  \cup {[k |-> "rejects", tracks |-> "none", error |-> error] :
          error \in Rejections}

\* the browser during one initialize(): support, microphone, the
\* construction of the AudioContext and the node pipeline
Browsers ==
  [supported : BOOLEAN,
   getUserMedia : GetUserMediaOutcomes,
   construction : {"throws", "running", "resumed", "resumeRejects", "closed"},
   pipeline : {"ok", "sourceThrows", "fftSizeThrows"}]

\* the browsers of the interleaved calls: the microphone granted or
\* denied, with every construction of the context and every pipeline
AsyncBrowsers ==
  {browser \in Browsers :
     /\ browser.getUserMedia.k = "resolves" => browser.getUserMedia.tracks = "live"
     /\ browser.getUserMedia.k = "rejects"
          => browser.getUserMedia.error = NamedError("NotAllowedError", "Permission denied")}

\* the browsers the app is started in: with and without support, the
\* microphone granted or denied, the context running, suspended or failing
AppBrowsers ==
  {browser \in Browsers :
     /\ browser.getUserMedia.k = "resolves" => browser.getUserMedia.tracks = "live"
     /\ browser.getUserMedia.k = "rejects"
          => browser.getUserMedia.error = NamedError("NotAllowedError", "Permission denied")
     /\ browser.construction \in {"throws", "running", "resumed"}
     /\ browser.pipeline = "ok"}

\* the windows a ThemeManager is constructed in
Windows ==
  [cssVariables : BOOLEAN, matchMedia : BOOLEAN, localStorage : BOOLEAN,
   prefersColorScheme : BOOLEAN, listenerApi : {"modern", "legacy", "none"}]

\* what localStorage holds under the theme key: nothing, a preference, or
\* something that is no preference
StoredThemes == {"none", "light", "dark", "system", "invalid-theme"}

\* the arguments of setTheme: the preferences and the invalid value of
\* the tests
ThemeArguments == {"light", "dark", "system", "invalid-theme"}

\* baseFreq * Math.pow(2, cents / 1200): the frequency the tests build to
\* lie cents away from a reference
Detuned(baseFreq, cents) ==
  TimesFine(baseFreq, MathPow2(Quotient(Int2Num(cents), Int2Num(1200))))

\* the names of the references
NoteNames == {GUITAR_TUNING[i].note : i \in 1..Len(GUITAR_TUNING)}

TunerFrequencies ==
  Near({GUITAR_TUNING[i].frequency : i \in 1..Len(GUITAR_TUNING)}
       \cup Midpoints \cup HalfCentSteps)
  \cup {Int2Num(70), Int2Num(90), Int2Num(120), Int2Num(160), Int2Num(210),
        Int2Num(270), Int2Num(400), Int2Num(10000), Int2Num(1), Num(0),
        Int2Num(-100), Num(-1), NegInf}
  \cup {Detuned(GUITAR_TUNING[i].frequency, sign * cents) :
          i \in 1..Len(GUITAR_TUNING), sign \in {-1, 1},
          cents \in {TUNING_TOLERANCE_CENTS, TUNING_TOLERANCE_CENTS + 1}}

\* confidences given to analyzeNote: the default 1.0, and 0.5
Confidences == {Int2Num(1), Half}

(***************************************************************************)
(* State                                                                   *)
(***************************************************************************)
(***************************************************************************)
(* GuitarTunerApp: start, stop, the processing loop and page visibility    *)
(***************************************************************************)

\* the values of AppState
IDLE == "idle"
REQUESTING_MIC == "requesting-mic"
READY == "ready"
LISTENING == "listening"
ERROR == "error"
AppState == {IDLE, REQUESTING_MIC, READY, LISTENING, ERROR}

\* more consecutive errors than this stop the loop:
\* if (this.audioProcessingErrorCount > 10)
maxErrorCount == 10

\* the volume 0.005 below which a frame is only warned about
lowVolumeRms == Num((5 * ONE) \div 1000)

\* the fields of a new GuitarTunerApp that the handlers below read or
\* write; null as "null" and 0
GuitarTunerApp ==
  [currentState |-> IDLE, pitchDetector |-> "null", processingLoopId |-> 0,
   audioProcessingErrorCount |-> 0]

\* requestAnimationFrame: the id of the callback now pending. The browser
\* hands out an id it has not used; the app only compares ids with null and
\* hands them back to cancelAnimationFrame, so the least id that is neither
\* pending nor held by the app stands for it
requestAnimationFrame(animationFrames, held) ==
  LET unused == {id \in 1..(Cardinality(animationFrames) + 2) :
                   id \notin animationFrames \cup {held}}
  IN CHOOSE id \in unused : \A other \in unused : id <= other

\* stopAudioProcessingPipeline(): the pending callback is cancelled and the
\* error counter reset
stopAudioProcessingPipeline(app, animationFrames) ==
  [app |-> [app EXCEPT !.processingLoopId = 0,
                       !.audioProcessingErrorCount = 0],
   animationFrames |-> animationFrames \ {app.processingLoopId}]

\* startAudioProcessingPipeline() that requests a frame although one is
\* held already
startAudioProcessingPipelineAgain(app, animationFrames) ==
  LET id == requestAnimationFrame(animationFrames, app.processingLoopId)
  IN [app |-> [app EXCEPT !.processingLoopId = id],
      animationFrames |-> animationFrames \cup {id}]

\* startAudioProcessingPipeline(): nothing if a frame is held, else the
\* first frame is requested
startAudioProcessingPipeline(app, animationFrames) ==
  IF app.processingLoopId # 0
  THEN [app |-> app, animationFrames |-> animationFrames]
  ELSE LET id == requestAnimationFrame(animationFrames, 0)
       IN [app |-> [app EXCEPT !.processingLoopId = id],
           animationFrames |-> animationFrames \cup {id}]

\* handleError() of the app: the state becomes ERROR and the loop is stopped
handleErrorOfApp(app, animationFrames) ==
  stopAudioProcessingPipeline([app EXCEPT !.currentState = ERROR],
                              animationFrames)

\* handleStart() after await this.audioManager.initialize(): on a
\* rejection the catch block; else the detector is made, recording starts,
\* the state becomes READY and the loop is started
handleStartAfterInitialize(app, animationFrames, self, audioContexts, rejected) ==
  LET recording == startRecording(self, audioContexts)
      made == [app EXCEPT !.pitchDetector = "set"]
      loop == startAudioProcessingPipeline(
                [made EXCEPT !.currentState = READY], animationFrames)
      failed == handleErrorOfApp(app, animationFrames)
      threw == handleErrorOfApp(made, animationFrames)
  IN CASE rejected # NoError ->
            [app |-> failed.app, animationFrames |-> failed.animationFrames,
             self |-> self, audioContexts |-> audioContexts]
       [] recording.thrown # NoError ->
            [app |-> threw.app, animationFrames |-> threw.animationFrames,
             self |-> self, audioContexts |-> audioContexts]
       [] OTHER ->
            [app |-> loop.app, animationFrames |-> loop.animationFrames,
             self |-> recording.self,
             audioContexts |-> recording.audioContexts]

\* handleStop() after await this.audioManager.cleanup()
handleStopAfterCleanup(app) ==
  [app EXCEPT !.pitchDetector = "null", !.currentState = IDLE]

\* handlePageHidden(): in READY and LISTENING the loop and the recording
\* are stopped
handlePageHidden(app, animationFrames, self, audioContexts) ==
  LET loop == stopAudioProcessingPipeline(app, animationFrames)
      recording == stopRecording(self, audioContexts)
  IN IF app.currentState \in {LISTENING, READY}
     THEN [app |-> loop.app, animationFrames |-> loop.animationFrames,
           self |-> recording.self, audioContexts |-> recording.audioContexts]
     ELSE [app |-> app, animationFrames |-> animationFrames, self |-> self,
           audioContexts |-> audioContexts]

\* handlePageVisible(): with an initialized manager, in READY and
\* LISTENING, recording and the loop are started again
handlePageVisible(app, animationFrames, self, audioContexts) ==
  LET recording == startRecording(self, audioContexts)
      loop == startAudioProcessingPipeline(app, animationFrames)
  IN IF self.isInitialized /\ app.currentState \in {LISTENING, READY}
     THEN [app |-> loop.app, animationFrames |-> loop.animationFrames,
           self |-> recording.self, audioContexts |-> recording.audioContexts]
     ELSE [app |-> app, animationFrames |-> animationFrames, self |-> self,
           audioContexts |-> audioContexts]

\* what one run of processAudio leaves: the app, the pending callbacks,
\* the manager, and how the run went
Processed(app, animationFrames, self, ended) ==
  [app |-> app, animationFrames |-> animationFrames, self |-> self,
   ended |-> ended]

\* this.processingLoopId = requestAnimationFrame(processAudio)
Rescheduled(app, animationFrames, self, ended) ==
  LET id == requestAnimationFrame(animationFrames, app.processingLoopId)
  IN Processed([app EXCEPT !.processingLoopId = id],
               animationFrames \cup {id}, self, ended)

\* processAudio past its test of the state. frame is what this run meets:
\* whether it comes before the update interval has passed, the samples the
\* analyser holds, what detection and shouldUpdateUI make of them, and
\* whether a call in the try block throws (a critical error names
\* AudioContext, MediaStream or getUserMedia). The counter is reset where a
\* display update or a missing pitch ends the try block, and nowhere else
ProcessFrame(app, animationFrames, self, frame) ==
  LET data == getAudioData(self, frame.samples)
      audible == data.ret # <<>>
      quiet == audible /\ Lt(RootMeanSquare(data.ret), lowVolumeRms)
      state ==
        CASE ~audible -> IF app.currentState = LISTENING THEN READY
                         ELSE app.currentState
          [] quiet -> READY
          [] OTHER -> LISTENING
      reset == /\ audible
               /\ ~quiet
               /\ app.pitchDetector # "null"
               /\ frame.detection \in {"noPitch", "updated"}
               /\ frame.throws = "none"
      tried == [app EXCEPT !.currentState = state,
                           !.audioProcessingErrorCount =
                              IF reset THEN 0 ELSE @]
      counted == [tried EXCEPT !.audioProcessingErrorCount = @ + 1]
      critical == handleErrorOfApp(tried, animationFrames)
      tooMany == handleErrorOfApp(counted, animationFrames)
  IN CASE frame.early ->
            Rescheduled(app, animationFrames, self, "early")
       [] frame.throws = "critical" ->
            Processed(critical.app, critical.animationFrames, data.self,
                      "critical")
       [] frame.throws = "minor"
          /\ counted.audioProcessingErrorCount > maxErrorCount ->
            Processed(tooMany.app, tooMany.animationFrames, data.self,
                      "stopped")
       [] frame.throws = "minor" ->
            Rescheduled(counted, animationFrames, data.self, "minor")
       [] OTHER ->
            Rescheduled(tried, animationFrames, data.self, "processed")

\* processAudio, the callback of the loop, the earlier callback having
\* fired: outside READY and LISTENING it drops the id and returns
processAudio(app, animationFrames, self, frame) ==
  IF app.currentState \notin {READY, LISTENING}
  THEN Processed([app EXCEPT !.processingLoopId = 0], animationFrames, self,
                 "returned")
  ELSE ProcessFrame(app, animationFrames, self, frame)

VARIABLES
  detector,     \* the PitchDetector instance: sampleRate and config
  audioBuffer,  \* the caller's frame
  pitch,        \* what detectPitch returned for this frame and detector
  estimate,     \* what detectPitchWithConfidence returned for them
  pc,           \* "idle", or "hung" once a call loops forever
  argRate,      \* history: the sample rate last handed to the detector
  argConfig,    \* history: the configuration handed to the constructor
  updated,      \* history: updateSampleRate has been called
  guitarNotes,  \* the TunerEngine instance: its sorted reference table
  noteData,     \* what analyzeNote returned last
  argNote,      \* history: the reference a detuned frequency was built from
  argCents,     \* history: the cents it was detuned by
  audioManager, \* the AudioManager instance: its fields
  mediaStreams, \* browser: the tracks of every stream handed out
  audioContexts,\* browser: the state of every audio context constructed
  called,       \* the AudioManager method that settled last
  rejected,     \* what that call threw or rejected with
  audioData,    \* what that call returned, if it was getAudioData
  argFrame,     \* history: the frame the analyser held at that call
  themeWorld,   \* the ThemeManager instance (self) and what it acts on:
                \* registered change listeners, polling interval,
                \* data-theme attribute, stored preference
  window,       \* browser: the features the window offers
  systemDark,   \* browser: whether the dark media query matches
  themeCalled,  \* the ThemeManager method called last
  argTheme,     \* history: the theme that call was given
  delivered,    \* history: the last step ran the change handler
  stageSelf,    \* the detector whose private stages are applied one by one
  stageCalled,  \* the private method applied last
  stageArray,   \* the array it was given
  stageReturn,  \* what it returned
  stageLocals,  \* maxCorrelation, bestPeriod and secondBestCorrelation when
                \* the selector left its loop
  initializing, \* the initialize() in flight: the await it is at, the
                \* browser it runs in, what it caught, the context it waits
                \* for
  cleaning,     \* the cleanup() in flight and the context it is closing
  tunerApp,     \* the GuitarTunerApp instance: its fields
  animationFrames, \* browser: the ids of the pending frame callbacks
  handlers,     \* whether handleStart awaits initialize() and handleStop
                \* awaits cleanup()
  lastFrame,    \* history: the state processAudio ran in last, and how it
                \* ended
  errorRun,     \* history: the frames in a row that raised a minor error
  stopCompleted \* history: handleStop has returned and handleStart has not
                \* been called since

detectorVars ==
  <<detector, audioBuffer, pitch, estimate, pc, argRate, argConfig, updated>>
tunerVars == <<guitarNotes, noteData, argNote, argCents>>
audioVars ==
  <<audioManager, mediaStreams, audioContexts, called, rejected, audioData,
    argFrame>>
themeVars ==
  <<themeWorld, window, systemDark, themeCalled, argTheme, delivered>>
stageVars == <<stageSelf, stageCalled, stageArray, stageReturn, stageLocals>>
asyncVars == <<initializing, cleaning>>
appVars ==
  <<tunerApp, animationFrames, handlers, lastFrame, errorRun, stopCompleted>>
hostVars == <<asyncVars, appVars>>
platformVars == <<audioVars, themeVars, stageVars, hostVars>>
vars == <<detectorVars, tunerVars, platformVars>>

\* a new AudioManager with the given threshold, in a browser that has
\* handed out nothing yet
AudioIdle(minVolumeThreshold) ==
  /\ audioManager = AudioManager(minVolumeThreshold)
  /\ mediaStreams = <<>>
  /\ audioContexts = <<>>
  /\ called = "constructor"
  /\ rejected = NoError
  /\ audioData = <<>>
  /\ argFrame = <<>>

\* a ThemeManager newly constructed in the given window
ThemeConstructed(w, dark, storedTheme) ==
  /\ themeWorld = ThemeManager(w, dark, storedTheme)
  /\ window = w
  /\ systemDark = dark
  /\ themeCalled = "constructor"
  /\ argTheme = "none"
  /\ delivered = FALSE

\* the window of the tests: everything supported, light system theme
TestWindow ==
  [cssVariables |-> TRUE, matchMedia |-> TRUE, localStorage |-> TRUE,
   prefersColorScheme |-> TRUE, listenerApi |-> "modern"]

ThemeIdle == ThemeConstructed(TestWindow, FALSE, "none")

\* no private stage has been applied: a detector and an empty array
StageIdle ==
  /\ stageSelf = PitchDetector(Int2Num(500), DEFAULT_AUDIO_CONFIG)
  /\ stageCalled = "none"
  /\ stageArray = <<>>
  /\ stageReturn = <<>>
  /\ stageLocals = <<>>

\* no frame callback has run yet
NoFrame == [state |-> IDLE, ended |-> "none"]

\* a new GuitarTunerApp, no handler and no call of its manager in flight
HostIdle ==
  /\ initializing = NotInitializing
  /\ cleaning = NotCleaning
  /\ tunerApp = GuitarTunerApp
  /\ animationFrames = {}
  /\ handlers = [handleStart |-> FALSE, handleStop |-> FALSE]
  /\ lastFrame = NoFrame
  /\ errorRun = 0
  /\ stopCompleted = FALSE

\* no call has returned yet for the current frame and detector
NotCalled == [k |-> "notcalled", frequency |-> NaN, confidence |-> NaN]

\* analyzeNote has not been called yet
NoNoteData ==
  [frequency |-> NaN, note |-> "none", cents |-> NaN, isInTune |-> FALSE,
   confidence |-> NaN]

Init ==
  /\ \E sampleRate \in Rates, config \in Configs :
       /\ detector = PitchDetector(sampleRate, config)
       /\ argRate = sampleRate
       /\ argConfig = config
  /\ audioBuffer = <<>>
  /\ pitch = NotCalled
  /\ estimate = NotCalled
  /\ pc = "idle"
  /\ updated = FALSE
  /\ guitarNotes = TunerEngine
  /\ noteData = NoNoteData
  /\ argNote = "none"
  /\ argCents = 0
  /\ AudioIdle(Num(ONE \div 100))
  /\ ThemeIdle
  /\ StageIdle
  /\ HostIdle

\* the audio capture hands the next frame to the caller
Capture ==
  /\ pc = "idle"
  /\ \E frame \in Frames : audioBuffer' = frame
  /\ pitch' = NotCalled
  /\ estimate' = NotCalled
  /\ UNCHANGED <<detector, pc, argRate, argConfig, updated, tunerVars, platformVars>>

DetectPitch ==
  /\ pc = "idle"
  /\ \E call \in {detectPitch(detector, audioBuffer)} :
        IF call.ret.k = "hang"
        THEN /\ pc' = "hung"
             /\ UNCHANGED <<detector, audioBuffer, pitch>>
        ELSE /\ pitch' = call.ret
             /\ audioBuffer' = call.audioBuffer
             /\ detector' = call.self
             /\ pc' = pc
  /\ UNCHANGED <<estimate, argRate, argConfig, updated, tunerVars, platformVars>>

DetectPitchWithConfidence ==
  /\ pc = "idle"
  /\ \E call \in {detectPitchWithConfidence(detector, audioBuffer)} :
        IF call.ret.k = "hang"
        THEN /\ pc' = "hung"
             /\ UNCHANGED <<detector, audioBuffer, estimate>>
        ELSE /\ estimate' = call.ret
             /\ audioBuffer' = call.audioBuffer
             /\ detector' = call.self
             /\ pc' = pc
  /\ UNCHANGED <<pitch, argRate, argConfig, updated, tunerVars, platformVars>>

UpdateSampleRate ==
  /\ pc = "idle"
  /\ \E sampleRate \in Rates :
       /\ detector' = updateSampleRate(detector, sampleRate)
       /\ argRate' = sampleRate
  /\ pitch' = NotCalled
  /\ estimate' = NotCalled
  /\ updated' = TRUE
  /\ UNCHANGED <<audioBuffer, pc, argConfig, tunerVars, platformVars>>

Next == Capture \/ DetectPitch \/ DetectPitchWithConfidence \/ UpdateSampleRate

\* the detector under every order of captures, calls and rate updates
Spec == Init /\ [][Next]_vars

AnalyzeNote ==
  /\ \E frequency \in TunerFrequencies, confidence \in Confidences :
       noteData' = analyzeNote(guitarNotes, frequency, confidence)
  /\ UNCHANGED <<guitarNotes, argNote, argCents, detectorVars, platformVars>>

NextTuner == AnalyzeNote

\* the tuner beside a detector built with the default configuration
InitTuner ==
  /\ Init
  /\ detector = PitchDetector(Int2Num(1000), DEFAULT_AUDIO_CONFIG)

\* the tuner under every sequence of analyses
SpecTuner == InitTuner /\ [][NextTuner]_vars

\* a detector built with the default configuration, not yet used
DetectorIdle ==
  /\ detector = PitchDetector(Int2Num(1000), DEFAULT_AUDIO_CONFIG)
  /\ argRate = Int2Num(1000)
  /\ argConfig = DEFAULT_AUDIO_CONFIG
  /\ audioBuffer = <<>>
  /\ pitch = NotCalled
  /\ estimate = NotCalled
  /\ pc = "idle"
  /\ updated = FALSE

\* a test builds one frequency from a reference and a detuning
InitCents ==
  /\ DetectorIdle
  /\ AudioIdle(Num(ONE \div 100))
  /\ ThemeIdle
  /\ StageIdle
  /\ HostIdle
  /\ guitarNotes = TunerEngine
  /\ noteData = NoNoteData
  /\ argNote \in NoteNames
  /\ argCents \in (0 - MaxCents)..MaxCents

\* the test analyses the frequency it built
AnalyzeDetuned ==
  /\ noteData = NoNoteData
  /\ argNote \in NoteNames
  /\ noteData' = analyzeNote(guitarNotes,
                             Detuned(TuningOf(argNote), argCents), Int2Num(1))
  /\ UNCHANGED <<guitarNotes, argNote, argCents, detectorVars, platformVars>>

NextCents == AnalyzeDetuned

\* the tuner on the frequencies detuned from its references
SpecCents == InitCents /\ [][NextCents]_vars

\* a tuner that has analysed nothing
TunerIdle ==
  /\ guitarNotes = TunerEngine
  /\ noteData = NoNoteData
  /\ argNote = "none"
  /\ argCents = 0

\* an AudioManager is constructed with some volume threshold
InitAudio ==
  /\ DetectorIdle
  /\ TunerIdle
  /\ ThemeIdle
  /\ StageIdle
  /\ HostIdle
  /\ \E minVolumeThreshold \in Thresholds : AudioIdle(minVolumeThreshold)

\* await initialize(), in a browser that answers in any of its ways
Initialize ==
  /\ Len(mediaStreams) < MaxAcquired
  /\ Len(audioContexts) < MaxAcquired
  /\ \E browser \in Browsers :
       \E call \in {initialize(audioManager, mediaStreams, audioContexts,
                               browser)} :
         /\ audioManager' = call.self
         /\ mediaStreams' = call.mediaStreams
         /\ audioContexts' = call.audioContexts
         /\ rejected' = call.rejected
  /\ called' = "initialize"
  /\ audioData' = <<>>
  /\ argFrame' = <<>>
  /\ UNCHANGED <<detectorVars, tunerVars, themeVars, stageVars, hostVars>>

StartRecording ==
  /\ \E call \in {startRecording(audioManager, audioContexts)} :
       /\ audioManager' = call.self
       /\ audioContexts' = call.audioContexts
       /\ rejected' = call.thrown
  /\ called' = "startRecording"
  /\ audioData' = <<>>
  /\ argFrame' = <<>>
  /\ UNCHANGED <<mediaStreams, detectorVars, tunerVars, themeVars, stageVars, hostVars>>

StopRecording ==
  /\ \E call \in {stopRecording(audioManager, audioContexts)} :
       /\ audioManager' = call.self
       /\ audioContexts' = call.audioContexts
  /\ called' = "stopRecording"
  /\ rejected' = NoError
  /\ audioData' = <<>>
  /\ argFrame' = <<>>
  /\ UNCHANGED <<mediaStreams, detectorVars, tunerVars, themeVars, stageVars, hostVars>>

\* getAudioData(), the analyser holding any frame
GetAudioData ==
  /\ \E frame \in CapturedFrames :
       \E call \in {getAudioData(audioManager, frame)} :
         /\ audioManager' = call.self
         /\ audioData' = call.ret
         /\ argFrame' = frame
  /\ called' = "getAudioData"
  /\ rejected' = NoError
  /\ UNCHANGED <<mediaStreams, audioContexts, detectorVars, tunerVars, themeVars, stageVars, hostVars>>

\* await cleanup()
Cleanup ==
  /\ \E call \in {cleanup(audioManager, mediaStreams, audioContexts)} :
       /\ audioManager' = call.self
       /\ mediaStreams' = call.mediaStreams
       /\ audioContexts' = call.audioContexts
  /\ called' = "cleanup"
  /\ rejected' = NoError
  /\ audioData' = <<>>
  /\ argFrame' = <<>>
  /\ UNCHANGED <<detectorVars, tunerVars, themeVars, stageVars, hostVars>>

NextAudio ==
  Initialize \/ StartRecording \/ StopRecording \/ GetAudioData \/ Cleanup

\* the AudioManager under every order of its calls, each awaited
SpecAudio == InitAudio /\ [][NextAudio]_vars

\* a ThemeManager is constructed in some window, under some system theme
\* and some stored preference
InitTheme ==
  /\ DetectorIdle
  /\ TunerIdle
  /\ AudioIdle(Num(ONE \div 100))
  /\ StageIdle
  /\ HostIdle
  /\ \E w \in Windows, dark \in BOOLEAN, storedTheme \in StoredThemes :
       ThemeConstructed(w, dark, storedTheme)

\* initialize() called again on the constructed manager
InitializeTheme ==
  /\ Cardinality(themeWorld.listeners) < MaxListeners
  /\ themeWorld' = initializeTheme(themeWorld, window, systemDark)
  /\ themeCalled' = "initialize"
  /\ argTheme' = "none"
  /\ delivered' = FALSE
  /\ UNCHANGED <<window, systemDark, detectorVars, tunerVars, audioVars, stageVars, hostVars>>

SetTheme ==
  /\ \E theme \in ThemeArguments, setItemThrows \in BOOLEAN :
       /\ themeWorld' = setTheme(themeWorld, theme, setItemThrows)
       /\ argTheme' = theme
  /\ themeCalled' = "setTheme"
  /\ delivered' = FALSE
  /\ UNCHANGED <<window, systemDark, detectorVars, tunerVars, audioVars, stageVars, hostVars>>

ToggleTheme ==
  /\ \E setItemThrows \in BOOLEAN :
       themeWorld' = toggleTheme(themeWorld, setItemThrows)
  /\ themeCalled' = "toggleTheme"
  /\ argTheme' = "none"
  /\ delivered' = FALSE
  /\ UNCHANGED <<window, systemDark, detectorVars, tunerVars, audioVars, stageVars, hostVars>>

\* the system theme changes: the media query sends a change event to
\* every listener registered on it
SystemThemeChange ==
  /\ systemDark' = ~systemDark
  /\ IF themeWorld.listeners # {}
     THEN /\ themeWorld' = onSystemThemeChange(themeWorld, systemDark')
          /\ delivered' = TRUE
     ELSE /\ themeWorld' = themeWorld
          /\ delivered' = FALSE
  /\ UNCHANGED <<window, themeCalled, argTheme, detectorVars, tunerVars,
                 audioVars, stageVars, hostVars>>

\* the polling interval fires
Poll ==
  /\ themeWorld.polling
  /\ themeWorld' = PollingCallback(themeWorld, systemDark)
  /\ delivered' = FALSE
  /\ UNCHANGED <<window, systemDark, themeCalled, argTheme, detectorVars,
                 tunerVars, audioVars, stageVars, hostVars>>

Destroy ==
  /\ themeWorld' = destroy(themeWorld, window)
  /\ themeCalled' = "destroy"
  /\ argTheme' = "none"
  /\ delivered' = FALSE
  /\ UNCHANGED <<window, systemDark, detectorVars, tunerVars, audioVars, stageVars, hostVars>>

NextTheme ==
  InitializeTheme \/ SetTheme \/ ToggleTheme \/ SystemThemeChange \/ Poll
  \/ Destroy

\* the ThemeManager under every order of calls and system theme changes
SpecTheme == InitTheme /\ [][NextTheme]_vars

(***************************************************************************)
(* The private stages of PitchDetector, applied one by one to an array:    *)
(* to the array given, or, in the order detectPitchWithConfidence applies  *)
(* them, to what the stage before returned.                                *)
(***************************************************************************)
InitStages ==
  /\ DetectorIdle
  /\ TunerIdle
  /\ AudioIdle(Num(ONE \div 100))
  /\ ThemeIdle
  /\ HostIdle
  /\ stageSelf \in StageDetectors
  /\ stageArray \in StageArrays
  /\ stageCalled = "none"
  /\ stageReturn = <<>>
  /\ stageLocals = <<>>

ApplyGuitarFrequencyFilter ==
  /\ stageCalled = "none"
  /\ stageArray \in Frames
  /\ stageCalled' = "applyGuitarFrequencyFilter"
  /\ stageReturn' = applyGuitarFrequencyFilter(stageArray).filtered
  /\ UNCHANGED <<stageSelf, stageArray, stageLocals, detectorVars, tunerVars, audioVars, themeVars, hostVars>>

Autocorrelate ==
  /\ \/ stageCalled = "applyGuitarFrequencyFilter"
     \/ stageCalled = "none" /\ stageArray \in Frames
  /\ \E buffer \in {IF stageCalled = "none" THEN stageArray ELSE stageReturn} :
       /\ stageArray' = buffer
       /\ stageReturn' = autocorrelate(buffer)
  /\ stageCalled' = "autocorrelate"
  /\ UNCHANGED <<stageSelf, stageLocals, detectorVars, tunerVars, audioVars, themeVars, hostVars>>

\* the selector on what autocorrelate returned, or on the array given when
\* all its values are finite.  (What autocorrelate returns is all NaN or
\* all finite: every value is one finite sum over the same sumSquares.)
FindFundamentalFrequencyWithConfidence ==
  /\ \/ stageCalled = "autocorrelate"
     \/ /\ stageCalled = "none"
        /\ \A i \in 1..Len(stageArray) : IsFinite(stageArray[i])
  /\ \E correlations \in {IF stageCalled = "none" THEN stageArray ELSE stageReturn} :
       /\ stageArray' = correlations
       /\ stageLocals' = ScanOf(correlations, stageSelf.sampleRate, stageSelf.config).best
       /\ stageReturn' = findFundamentalFrequencyWithConfidence(correlations, stageSelf.sampleRate, stageSelf.config)
  /\ stageCalled' = "findFundamentalFrequencyWithConfidence"
  /\ UNCHANGED <<stageSelf, detectorVars, tunerVars, audioVars, themeVars, hostVars>>

\* the public call on the array given, all stages at once
DetectWithConfidence ==
  /\ stageCalled = "none"
  /\ stageArray \in Frames
  /\ stageCalled' = "detectPitchWithConfidence"
  /\ stageReturn' = detectPitchWithConfidence(stageSelf, stageArray).ret
  /\ UNCHANGED <<stageSelf, stageArray, stageLocals, detectorVars, tunerVars, audioVars, themeVars, hostVars>>

NextStages ==
  ApplyGuitarFrequencyFilter \/ Autocorrelate
  \/ FindFundamentalFrequencyWithConfidence \/ DetectWithConfidence

\* every private stage on every array, alone and in the order of a call
SpecStages == InitStages /\ [][NextStages]_vars

(***************************************************************************)
(* AudioManager with its awaits, and GuitarTunerApp on top of it           *)
(***************************************************************************)

\* one step of initialize(), up to its next await or to the end. When the
\* promise settles and handleStart awaits it, handleStart continues in the
\* same task
InitializeStep(call, app, started) ==
  /\ initializing' = call.initializing
  /\ mediaStreams' = call.mediaStreams
  /\ called' = IF call.settled THEN "initialize" ELSE call.initializing.at
  /\ rejected' = call.rejected
  /\ audioData' = <<>>
  /\ argFrame' = <<>>
  /\ IF call.settled /\ started
     THEN \E resumed \in {handleStartAfterInitialize(
                             app, animationFrames, call.self,
                             call.audioContexts, call.rejected)} :
            /\ tunerApp' = resumed.app
            /\ animationFrames' = resumed.animationFrames
            /\ audioManager' = resumed.self
            /\ audioContexts' = resumed.audioContexts
            /\ handlers' = [handlers EXCEPT !.handleStart = FALSE]
     ELSE /\ tunerApp' = app
          /\ animationFrames' = animationFrames
          /\ audioManager' = call.self
          /\ audioContexts' = call.audioContexts
          /\ handlers' = [handlers EXCEPT !.handleStart = started]
  /\ UNCHANGED <<cleaning, detectorVars, tunerVars, themeVars, stageVars>>

\* initialize() is called and runs to its first await
InitializeCall ==
  /\ initializing.at = "none"
  /\ Len(mediaStreams) < MaxAcquired
  /\ Len(audioContexts) < MaxAcquired
  /\ \E browser \in AsyncBrowsers :
       \E call \in {initializeUntilGetUserMedia(audioManager, mediaStreams,
                                                audioContexts, browser)} :
         InitializeStep(call, tunerApp, FALSE)
  /\ UNCHANGED <<lastFrame, errorRun, stopCompleted>>

\* getUserMedia() answers the initialize() that awaits it
GetUserMediaAnswers ==
  /\ initializing.at = "getUserMedia"
  /\ \E call \in {initializeAfterGetUserMedia(audioManager, mediaStreams,
                                              audioContexts,
                                              initializing.browser)} :
       InitializeStep(call, tunerApp, handlers.handleStart)
  /\ UNCHANGED <<lastFrame, errorRun, stopCompleted>>

\* resume() answers the initialize() that awaits it
ResumeAnswers ==
  /\ initializing.at = "resume"
  /\ \E call \in {initializeAfterResume(audioManager, mediaStreams,
                                        audioContexts, initializing)} :
       InitializeStep(call, tunerApp, handlers.handleStart)
  /\ UNCHANGED <<lastFrame, errorRun, stopCompleted>>

\* close() answers the cleanup() in the catch block of initialize()
CloseAnswers ==
  /\ initializing.at = "close"
  /\ \E call \in {initializeAfterClose(audioManager, mediaStreams,
                                       audioContexts, initializing)} :
       InitializeStep(call, tunerApp, handlers.handleStart)
  /\ UNCHANGED <<lastFrame, errorRun, stopCompleted>>

\* cleanup() from its call to its await, or to its end if it has no
\* context to close. When it ends and handleStop awaits it, handleStop
\* continues in the same task
CleanupStep(until, contexts, app, stopped) ==
  /\ mediaStreams' = until.mediaStreams
  /\ rejected' = NoError
  /\ audioData' = <<>>
  /\ argFrame' = <<>>
  /\ IF until.closing = 0
     THEN \E after \in {cleanupAfterClose(until.self, contexts, 0)} :
            /\ audioManager' = after.self
            /\ audioContexts' = after.audioContexts
            /\ cleaning' = NotCleaning
            /\ called' = "cleanup"
            /\ tunerApp' = IF stopped THEN handleStopAfterCleanup(app) ELSE app
            /\ handlers' = [handlers EXCEPT !.handleStop = FALSE]
            /\ stopCompleted' = (stopped \/ stopCompleted)
     ELSE /\ audioManager' = until.self
          /\ audioContexts' = contexts
          /\ cleaning' = [at |-> "close", context |-> until.closing]
          /\ called' = "close"
          /\ tunerApp' = app
          /\ handlers' = [handlers EXCEPT !.handleStop = stopped]
          /\ stopCompleted' = stopCompleted
  /\ UNCHANGED <<initializing, detectorVars, tunerVars, themeVars, stageVars>>

\* cleanup() is called
CleanupCall ==
  /\ cleaning.at = "none"
  /\ \E until \in {cleanupUntilClose(audioManager, mediaStreams,
                                      audioContexts)} :
       CleanupStep(until, audioContexts, tunerApp, FALSE)
  /\ UNCHANGED <<animationFrames, lastFrame, errorRun>>

\* close() answers the cleanup() that awaits it
CleanupCloses ==
  /\ cleaning.at = "close"
  /\ \E after \in {cleanupAfterClose(audioManager, audioContexts,
                                      cleaning.context)} :
       /\ audioManager' = after.self
       /\ audioContexts' = after.audioContexts
  /\ cleaning' = NotCleaning
  /\ called' = "cleanup"
  /\ rejected' = NoError
  /\ audioData' = <<>>
  /\ argFrame' = <<>>
  /\ tunerApp' = IF handlers.handleStop THEN handleStopAfterCleanup(tunerApp)
                 ELSE tunerApp
  /\ handlers' = [handlers EXCEPT !.handleStop = FALSE]
  /\ stopCompleted' = (handlers.handleStop \/ stopCompleted)
  /\ UNCHANGED <<mediaStreams, initializing, animationFrames, lastFrame,
                 errorRun, detectorVars, tunerVars, themeVars, stageVars>>

NextAudioAsync ==
  \/ InitializeCall
  \/ GetUserMediaAnswers
  \/ ResumeAnswers
  \/ CloseAnswers
  \/ StartRecording
  \/ StopRecording
  \/ CleanupCall
  \/ CleanupCloses

\* the AudioManager under every interleaving of initialize, startRecording,
\* stopRecording and cleanup: other calls run while an initialize() or a
\* cleanup() is at an await
SpecAudioAsync == InitAudio /\ [][NextAudioAsync]_vars

\* the app as its constructor leaves it, with a manager of the default
\* configuration
InitApp ==
  /\ DetectorIdle
  /\ TunerIdle
  /\ ThemeIdle
  /\ StageIdle
  /\ HostIdle
  /\ AudioIdle(Num(ONE \div 100))

\* a click on the start button, enabled in IDLE and ERROR: handleStart()
\* up to the first await of initialize()
HandleStart ==
  /\ tunerApp.currentState \in {IDLE, ERROR}
  /\ initializing.at = "none"
  /\ Len(mediaStreams) < MaxStarts
  /\ Len(audioContexts) < MaxStarts
  /\ \E browser \in AppBrowsers :
       \E call \in {initializeUntilGetUserMedia(audioManager, mediaStreams,
                                                audioContexts, browser)} :
         InitializeStep(call,
                        [tunerApp EXCEPT !.currentState = REQUESTING_MIC],
                        TRUE)
  /\ stopCompleted' = FALSE
  /\ errorRun' = 0
  /\ UNCHANGED lastFrame

\* a click on the stop button, enabled in REQUESTING_MIC, READY and
\* LISTENING: handleStop() up to the await in cleanup()
HandleStop ==
  /\ tunerApp.currentState \in {REQUESTING_MIC, READY, LISTENING}
  /\ cleaning.at = "none"
  /\ \E loop \in {stopAudioProcessingPipeline(tunerApp, animationFrames)} :
       \E recording \in {stopRecording(audioManager, audioContexts)} :
         \E until \in {cleanupUntilClose(recording.self, mediaStreams,
                                         recording.audioContexts)} :
           /\ animationFrames' = loop.animationFrames
           /\ CleanupStep(until, recording.audioContexts, loop.app, TRUE)
  /\ errorRun' = 0
  /\ UNCHANGED lastFrame

\* the browser runs a pending frame callback
AnimationFrame ==
  /\ \E id \in animationFrames :
       \E frame \in FrameInputs :
         \E run \in {processAudio(tunerApp, animationFrames \ {id},
                                  audioManager, frame)} :
           /\ tunerApp' = run.app
           /\ animationFrames' = run.animationFrames
           /\ audioManager' = run.self
           /\ lastFrame' = [state |-> tunerApp.currentState,
                            ended |-> run.ended]
           /\ errorRun' = CASE run.ended \in {"minor", "stopped"} ->
                                 errorRun + 1
                             [] run.ended \in {"processed", "critical"} -> 0
                             [] OTHER -> errorRun
           /\ argFrame' = frame.samples
  /\ called' = "processAudio"
  /\ rejected' = NoError
  /\ audioData' = <<>>
  /\ UNCHANGED <<mediaStreams, audioContexts, asyncVars, handlers,
                 stopCompleted, detectorVars, tunerVars, themeVars, stageVars>>

\* the page is hidden, or the window loses the focus
PageHidden ==
  /\ \E hidden \in {handlePageHidden(tunerApp, animationFrames,
                                      audioManager, audioContexts)} :
       /\ tunerApp' = hidden.app
       /\ animationFrames' = hidden.animationFrames
       /\ audioManager' = hidden.self
       /\ audioContexts' = hidden.audioContexts
  /\ errorRun' = IF tunerApp.currentState \in {LISTENING, READY} THEN 0
                 ELSE errorRun
  /\ called' = "handlePageHidden"
  /\ rejected' = NoError
  /\ audioData' = <<>>
  /\ argFrame' = <<>>
  /\ UNCHANGED <<mediaStreams, asyncVars, handlers, lastFrame, stopCompleted,
                 detectorVars, tunerVars, themeVars, stageVars>>

\* the page is shown, or the window gets the focus
PageVisible ==
  /\ \E visible \in {handlePageVisible(tunerApp, animationFrames,
                                        audioManager, audioContexts)} :
       /\ tunerApp' = visible.app
       /\ animationFrames' = visible.animationFrames
       /\ audioManager' = visible.self
       /\ audioContexts' = visible.audioContexts
  /\ called' = "handlePageVisible"
  /\ rejected' = NoError
  /\ audioData' = <<>>
  /\ argFrame' = <<>>
  /\ UNCHANGED <<mediaStreams, asyncVars, handlers, lastFrame, errorRun,
                 stopCompleted, detectorVars, tunerVars, themeVars, stageVars>>

NextApp ==
  \/ HandleStart
  \/ GetUserMediaAnswers
  \/ ResumeAnswers
  \/ CloseAnswers
  \/ HandleStop
  \/ CleanupCloses
  \/ AnimationFrame
  \/ PageHidden
  \/ PageVisible

\* the app under every interleaving of clicks, answers of the browser,
\* frame callbacks and visibility changes
SpecApp == InitApp /\ [][NextApp]_vars

(***************************************************************************)
(* Properties of PitchDetector                                             *)
(***************************************************************************)
\* a call has returned for the current frame and detector
Returned(result) == result.k \in {"null", "value"}

\* C1: for the same frame and detector, detectPitch returns the frequency f
\* exactly when detectPitchWithConfidence returns {f, c} with c >= 0.3, and
\* returns null in every other case (the statement is about calls that
\* returned; a call that never returns is the subject of C8)
C1_FloorIsTheOnlyDifference ==
  (Returned(pitch) /\ Returned(estimate)) =>
    IF estimate.k = "value" /\ Ge(estimate.confidence, minConfidence)
    THEN pitch = Frequency(estimate.frequency)
    ELSE pitch = Null

\* C1, second sentence: detectPitchWithConfidence has returned an estimate
\* below the floor, and detectPitch null for the same frame
C1_Witness ==
  /\ estimate.k = "value"
  /\ Lt(estimate.confidence, minConfidence)
  /\ pitch = Null

\* a returned frequency lies in the configured band
InBand(result) ==
  result.k = "value" =>
    /\ Le(detector.config.minFrequency, result.frequency)
    /\ Le(result.frequency, detector.config.maxFrequency)

\* C2: whatever the frame and whatever sample rate updateSampleRate set, a
\* frequency returned by detectPitch or detectPitchWithConfidence satisfies
\* minFrequency <= f <= maxFrequency
C2_ReturnedFrequencyInBand == InBand(pitch) /\ InBand(estimate)

\* a frequency was returned after updateSampleRate changed the rate
C2_Witness == updated /\ pitch.k = "value" /\ estimate.k = "value"

\* the frames C3 names: empty, one sample, all zero, constant
Degenerate(frame) == \A i \in 1..Len(frame) : frame[i] = frame[1]

\* C3: for an empty frame, a 1-sample frame, an all-zero frame and a
\* constant frame of any length, a call that returns returns null (no
\* operation of the code throws on any of them)
C3_DegenerateFramesGiveNull ==
  Degenerate(audioBuffer) =>
    /\ Returned(pitch) => pitch = Null
    /\ Returned(estimate) => estimate = Null

\* both calls returned null on a constant frame of the longest length whose
\* samples are finite and not zero
C3_Witness ==
  /\ Len(audioBuffer) = MaxLen
  /\ Degenerate(audioBuffer)
  /\ IsNum(audioBuffer[1]) /\ audioBuffer[1] # Num(0)
  /\ pitch = Null /\ estimate = Null

\* the frame holds a NaN, +Infinity or -Infinity sample
HasNonFinite(frame) == \E i \in 1..Len(frame) : ~IsFinite(frame[i])

\* C4: for a frame with NaN or infinite samples mixed with finite ones, the
\* result of detectPitch and of detectPitchWithConfidence is null or a
\* finite frequency, never a non-finite one
C4_NonFiniteSamplesStayOut ==
  HasNonFinite(audioBuffer) =>
    /\ pitch.k = "value" => IsFinite(pitch.frequency)
    /\ estimate.k = "value" => IsFinite(estimate.frequency)

\* both calls returned on a frame that mixes finite and non-finite samples
C4_Witness ==
  /\ HasNonFinite(audioBuffer)
  /\ \E i \in 1..Len(audioBuffer) : audioBuffer[i] = Half
  /\ Len(audioBuffer) = MaxLen
  /\ Returned(pitch) /\ Returned(estimate)

\* C5: a call of detectPitch or detectPitchWithConfidence leaves the
\* caller's frame, the stored sample rate and the configuration as they
\* were, so a second call on the same frame returns what the first returned.
\* The steps that end with a result in pitch or estimate, or that move pc,
\* are exactly the steps of the two calls: the capture of a frame and
\* updateSampleRate clear both results and leave pc alone
C5_CallsArePure ==
  [][(Returned(pitch') \/ Returned(estimate') \/ pc' # pc) =>
       /\ audioBuffer' = audioBuffer
       /\ detector' = detector
       /\ Returned(pitch) => pitch' = pitch
       /\ Returned(estimate) => estimate' = estimate]_vars

\* both calls ran on one frame, one after the other, and returned a pitch
C5_Witness ==
  /\ pitch.k = "value" /\ estimate.k = "value"
  /\ pitch.frequency = estimate.frequency
  /\ Len(audioBuffer) = MaxLen

\* C6: after updateSampleRate(r) a detection computes with r (the result is
\* the one a detector built with r and the constructor's configuration
\* gives: r sets the lag range and converts the period), and
\* updateSampleRate changes no other field of the detector, nor the tuner's
\* reference table
C6_UpdatedRateIsUsed ==
  /\ detector = [sampleRate |-> argRate, config |-> argConfig]
  /\ guitarNotes = TunerEngine
  /\ Returned(pitch) =>
       pitch = detectPitch(PitchDetector(argRate, argConfig), audioBuffer).ret
  /\ Returned(estimate) =>
       estimate = detectPitchWithConfidence(
                    PitchDetector(argRate, argConfig), audioBuffer).ret

\* a pitch was detected at the rate 280 set by updateSampleRate, a rate at
\* which the low-string bonus applies
C6_Witness ==
  /\ updated
  /\ argRate = Int2Num(280)
  /\ estimate.k = "value"
  /\ Lt(estimate.frequency, Int2Num(150))

\* C7 as stated: the configuration invariant holds in every reachable
\* detector state
C7_InvariantAlwaysHolds ==
  ConfigInvariant(detector.sampleRate, detector.config)

\* C7 as amended: the detector holds the constructor's configuration and
\* the sample rate last supplied, unvalidated, so the invariant holds in a
\* state exactly when it holds of those arguments; the band never changes
C7_InvariantOnlyAsSupplied ==
  /\ ConfigInvariant(detector.sampleRate, detector.config)
       <=> ConfigInvariant(argRate, argConfig)
  /\ detector.config = argConfig

\* updateSampleRate has put a detector with a valid band into a state that
\* breaks the invariant
C7_Witness ==
  /\ updated
  /\ Lt(Num(0), detector.config.minFrequency)
  /\ Lt(detector.config.minFrequency, detector.config.maxFrequency)
  /\ ~ConfigInvariant(detector.sampleRate, detector.config)

\* the violations C8 names: minFrequency >= maxFrequency or sampleRate <= 0
ConfigViolated(sampleRate, config) ==
  \/ Ge(config.minFrequency, config.maxFrequency)
  \/ Le(sampleRate, Num(0))

\* C8: the constructor rejects nothing, so with a violated configuration
\* every call of detectPitch and detectPitchWithConfidence, on every frame,
\* returns null
C8_ViolatedConfigGivesNull ==
  ConfigViolated(detector.sampleRate, detector.config) =>
    /\ pc # "hung"
    /\ Returned(pitch) => pitch = Null
    /\ Returned(estimate) => estimate = Null

(***************************************************************************)
(* Properties of TunerEngine                                               *)
(***************************************************************************)
\* analyzeNote has returned
Analysed == noteData.note # "none"

\* |f - r| in steps of the number grid, for finite f and r
Distance(f, r) == AbsInt(f.v - r.v)

\* C9: the note analyzeNote returns names a reference that no reference of
\* the six-entry table is nearer to the frequency than, and of two
\* references equally near it names the one with the lower frequency
C9_NearestReferenceLowestOnTie ==
  (Analysed /\ IsNum(noteData.frequency)) =>
    /\ Len(guitarNotes) = 6
    /\ \E i \in 1..Len(GUITAR_TUNING) :
         /\ GUITAR_TUNING[i].note = noteData.note
         /\ \A j \in 1..Len(GUITAR_TUNING) :
              LET mine == Distance(noteData.frequency,
                                   GUITAR_TUNING[i].frequency)
                  other == Distance(noteData.frequency,
                                    GUITAR_TUNING[j].frequency)
              IN /\ mine <= other
                 /\ mine = other =>
                      GUITAR_TUNING[i].frequency.v
                        <= GUITAR_TUNING[j].frequency.v

\* a frequency exactly between E2 and A2 was analysed and named E2
C9_Witness ==
  /\ Analysed
  /\ Distance(noteData.frequency, TuningOf("E2"))
       = Distance(noteData.frequency, TuningOf("A2"))
  /\ noteData.note = "E2"

\* 1200 * log2(f / reference) of the analysis in noteData, in binary steps
CentsOfNoteData ==
  CentsBeforeRounding(noteData.frequency, TuningOf(noteData.note))

\* C10 as stated: cents is 1200 * log2(f / reference) rounded to the
\* nearest integer, exact halves away from zero: +k.5 gives k + 1 and
\* -k.5 gives -(k + 1)
C10_HalvesAwayFromZero ==
  (Analysed /\ IsNum(CentsOfNoteData)) =>
    noteData.cents =
      Int2Num(Sgn(CentsOfNoteData.v)
              * ((AbsInt(CentsOfNoteData.v) + LogOne \div 2) \div LogOne))

\* C10 as amended: cents is the integer c with c - 0.5 <= x < c + 0.5 for
\* x = 1200 * log2(f / reference), the nearest integer with exact halves
\* rounded up: +k.5 gives k + 1 and -k.5 gives -k
C10_HalvesTowardPlusInfinity ==
  (Analysed /\ IsNum(CentsOfNoteData)) =>
    /\ IsNum(noteData.cents)
    /\ noteData.cents.v % ONE = 0
    /\ LET c == noteData.cents.v \div ONE
       IN /\ c * LogOne - LogOne \div 2 <= CentsOfNoteData.v
          /\ CentsOfNoteData.v < c * LogOne + LogOne \div 2

\* an analysis whose 1200 * log2(f / reference) is exactly -k.5, returned
\* as -k
C10_Witness ==
  /\ Analysed
  /\ IsNum(CentsOfNoteData)
  /\ CentsOfNoteData.v < 0
  /\ CentsOfNoteData.v % LogOne = LogOne \div 2
  /\ noteData.cents = Int2Num((CentsOfNoteData.v + LogOne \div 2) \div LogOne)

\* the frequencies the tests build cents away from some reference
DetunedBy(cents) ==
  {Detuned(GUITAR_TUNING[i].frequency, cents) : i \in 1..Len(GUITAR_TUNING)}

\* C11: in every result of analyzeNote, isInTune is true if and only if
\* the cents of the same result is a number with |cents| <= 5; a frequency
\* built 5 cents above or below a reference is in tune and one built 6
\* cents above or below is not
C11_InTuneIffWithinTolerance ==
  Analysed =>
    /\ noteData.isInTune <=>
         /\ IsNum(noteData.cents)
         /\ AbsInt(noteData.cents.v) <= TUNING_TOLERANCE_CENTS * ONE
    /\ \A sign \in {-1, 1} :
         /\ noteData.frequency \in DetunedBy(sign * TUNING_TOLERANCE_CENTS)
              => /\ noteData.cents = Int2Num(sign * TUNING_TOLERANCE_CENTS)
                 /\ noteData.isInTune
         /\ noteData.frequency
              \in DetunedBy(sign * (TUNING_TOLERANCE_CENTS + 1))
              => /\ noteData.cents
                      = Int2Num(sign * (TUNING_TOLERANCE_CENTS + 1))
                 /\ ~noteData.isInTune

\* a frequency 5 cents below its reference was analysed and found in tune
C11_Witness ==
  /\ Analysed
  /\ noteData.cents = Int2Num(0 - TUNING_TOLERANCE_CENTS)
  /\ noteData.isInTune

\* C12: the frequency built c cents away from a reference r, for each of
\* the six references and every integer c from -MaxCents to MaxCents, is
\* analysed as r's note with cents equal to c
C12_DetunedReferenceGivesItsCents ==
  Analysed =>
    /\ noteData.note = argNote
    /\ noteData.cents = Int2Num(argCents)

\* the B3 reference detuned by the largest negative detuning, toward G3,
\* was analysed as B3 with that detuning as cents
C12_Witness ==
  /\ Analysed
  /\ argNote = "B3"
  /\ argCents = 0 - MaxCents
  /\ noteData.note = "B3"
  /\ noteData.cents = Int2Num(0 - MaxCents)

\* a frequency that is zero or negative was analysed
AnalysedNotPositive == Analysed /\ Le(noteData.frequency, Num(0))

\* C13 as stated: a frequency f <= 0 is analysed as E2 and out of tune,
\* with a cents value that is a number of large magnitude (beyond every
\* detuning, infinite magnitude allowed)
C13_NotPositiveGivesLargeNumber ==
  AnalysedNotPositive =>
    /\ noteData.note = "E2"
    /\ ~noteData.isInTune
    /\ ~IsNaN(noteData.cents)
    /\ Gt(MathAbs(noteData.cents), Int2Num(MaxCents))

\* C13 as amended: a frequency f <= 0 is analysed as E2 and out of tune,
\* and its cents value is never a finite number: it is -Infinity when
\* f / 82.41 is zero, as for f = 0, and NaN for every other f
C13_NotPositiveGivesNoFiniteCents ==
  AnalysedNotPositive =>
    /\ noteData.note = "E2"
    /\ ~noteData.isInTune
    /\ noteData.cents \in {NegInf, NaN}
    /\ noteData.cents = NegInf
         <=> Quotient(noteData.frequency, TuningOf("E2")) = Num(0)
    /\ noteData.frequency = Num(0) => noteData.cents = NegInf

\* the frequency -100 was analysed as E2, out of tune, with NaN as cents
C13_Witness ==
  /\ AnalysedNotPositive
  /\ noteData.frequency = Int2Num(-100)
  /\ noteData.note = "E2"
  /\ noteData.cents = NaN
  /\ ~noteData.isInTune

\* initialize() settled last, and it rejected
InitializeRejected == called = "initialize" /\ rejected # NoError

\* C14: when initialize() fails at any step it rejects with an Error whose
\* message is an ErrorType value, and afterwards the manager is not
\* initialized, not recording, and holds no media stream and no audio
\* context
C14_FailedInitializeLeavesNothingHeld ==
  InitializeRejected =>
    /\ rejected.k = "error"
    /\ rejected.message \in ErrorType
    /\ ~audioManager.isInitialized
    /\ ~audioManager.isRecording
    /\ audioManager.mediaStream = 0
    /\ audioManager.audioContext = 0

\* getAudioData() settled last
GotAudioData == called = "getAudioData"

\* C15: getAudioData() returns a non-empty buffer exactly when the manager
\* is initialized and recording and the root mean square of the frame the
\* analyser holds exceeds minVolumeThreshold, and then it returns that
\* frame; in every other state it returns an empty buffer
C15_DataOnlyWhileRecordingAboveThreshold ==
  GotAudioData =>
    /\ audioData # <<>> <=>
         /\ audioManager.isInitialized
         /\ audioManager.isRecording
         /\ Gt(RootMeanSquare(argFrame), audioManager.minVolumeThreshold)
    /\ audioData # <<>> => audioData = argFrame

\* an initialized, recording manager returned a frame above its threshold
C15_Witness ==
  /\ GotAudioData
  /\ audioManager.isInitialized
  /\ audioManager.isRecording
  /\ Gt(RootMeanSquare(argFrame), audioManager.minVolumeThreshold)
  /\ audioData = argFrame
  /\ Len(audioData) = ShortLen

\* a stream whose tracks capture, and a context that is not closed
LiveStreams ==
  {id \in 1..Len(mediaStreams) : mediaStreams[id] \in {"live", "disabled"}}
OpenContexts ==
  {id \in 1..Len(audioContexts) : audioContexts[id] # "closed"}

\* C16: once cleanup() has completed, every media stream and every audio
\* context acquired through the preceding initialize() calls has been
\* stopped or closed
C16_CleanupReleasesEverythingAcquired ==
  called = "cleanup" => LiveStreams = {} /\ OpenContexts = {}

\* the applied theme is the system theme under the system preference and
\* the preference otherwise
AppliedThemeFollowsPreference ==
  themeWorld.self.currentTheme =
    IF themeWorld.self.themePreference = "system"
    THEN themeWorld.self.systemTheme
    ELSE themeWorld.self.themePreference

\* a change event handled under the light or dark preference records the
\* new system theme and leaves applied theme and preference as they were
ManualPreferenceIgnoresSystem ==
  (delivered' /\ themeWorld.self.themePreference \in {"light", "dark"}) =>
    /\ themeWorld'.self.systemTheme = IF systemDark' THEN "dark" ELSE "light"
    /\ themeWorld'.self.currentTheme = themeWorld.self.currentTheme
    /\ themeWorld'.self.themePreference = themeWorld.self.themePreference
    /\ themeWorld'.dataTheme = themeWorld.dataTheme

\* C17: in every state reached by setTheme, toggleTheme and system theme
\* change events the applied theme equals systemTheme when the preference
\* is 'system' and the preference otherwise; a system theme change under
\* the 'light' or 'dark' preference updates systemTheme and leaves the
\* applied theme and the preference unchanged
C17_AppliedThemeFollowsPreference ==
  []AppliedThemeFollowsPreference /\ [][ManualPreferenceIgnoresSystem]_vars

\* a change to the dark system theme was handled under the light
\* preference, and the applied theme stayed light
C17_Witness ==
  /\ delivered
  /\ themeCalled = "setTheme"
  /\ themeWorld.self.themePreference = "light"
  /\ themeWorld.self.systemTheme = "dark"
  /\ themeWorld.self.currentTheme = "light"
  /\ themeWorld.dataTheme = "light"

\* C18: setTheme called with a value that is not 'light', 'dark' or
\* 'system' leaves the applied theme and the theme preference unchanged
C18_InvalidThemeChangesNothing ==
  [][(themeCalled' = "setTheme" /\ ~isValidThemePreference(argTheme')) =>
       /\ themeWorld'.self.currentTheme = themeWorld.self.currentTheme
       /\ themeWorld'.self.themePreference = themeWorld.self.themePreference
    ]_vars

\* C19: after destroy() no change listener remains registered on the
\* media query, and while no other method is called the system theme and
\* the applied theme stay as destroy() left them, whatever the system does
C19_DestroyUnregistersListeners ==
  themeCalled = "destroy" =>
    /\ themeWorld.listeners = {}
    /\ themeWorld.self.systemTheme = "light"
    /\ themeWorld.self.currentTheme = "light"

\* the correlations the selector is given for the frame in audioBuffer
CorrelationsOfFrame ==
  autocorrelate(applyGuitarFrequencyFilter(audioBuffer).filtered)

\* the candidates among the lags period, period + 1, ... up to last, last
\* included: the strict local maxima, tracked as the selector tracks them
RECURSIVE CandidatesThrough(_, _, _, _)
CandidatesThrough(correlations, period, last, best) ==
  IF ~Le(period, last) THEN best
  ELSE CandidatesThrough(correlations, Add(period, Int2Num(1)), last,
                         ScanStep(correlations, period, best))

\* what detectPitchWithConfidence returns for the frame in audioBuffer if
\* the candidates are the strict local maxima from minPeriod to last
EstimateOfLagsThrough(last) ==
  LET correlations == CorrelationsOfFrame
      best == CandidatesThrough(
                correlations, minPeriodOf(detector.sampleRate, detector.config),
                last,
                [maxCorrelation |-> Num(0), bestPeriod |-> Num(0),
                 secondBestCorrelation |-> Num(0)])
      frequency == parabolicInterpolation(correlations, best.bestPeriod,
                                          detector.sampleRate)
  IN IF Lt(best.maxCorrelation, threshold) \/ best.bestPeriod = Num(0)
        \/ Lt(frequency, detector.config.minFrequency)
        \/ Gt(frequency, detector.config.maxFrequency)
     THEN Null
     ELSE Estimate(frequency,
                   calculateConfidence(best.maxCorrelation,
                                       best.secondBestCorrelation, correlations,
                                       best.bestPeriod, detector.sampleRate))

\* detectPitchWithConfidence has returned for the frame in audioBuffer
EstimateReturned == Len(audioBuffer) > 0 /\ estimate # NotCalled

\* maxPeriod of the detector, and whether it indexes a lag that has both
\* neighbours
MaxPeriodOfDetector == maxPeriodOf(detector.sampleRate, detector.config)
MaxPeriodInsideCorrelations ==
  /\ Le(minPeriodOf(detector.sampleRate, detector.config), MaxPeriodOfDetector)
  /\ Le(MaxPeriodOfDetector, Int2Num(Len(CorrelationsOfFrame) - 2))

\* C20 as stated: the candidates of the peak selector are the strict local
\* maxima at the lags L with minPeriod <= L <= min(maxPeriod, len - 2),
\* L = maxPeriod included when maxPeriod <= len - 2, and no others: the
\* call returns what selecting among these returns
C20_LagsThroughMaxPeriod ==
  EstimateReturned =>
    estimate = EstimateOfLagsThrough(
                 MathMin(MaxPeriodOfDetector,
                         Int2Num(Len(CorrelationsOfFrame) - 2)))

\* C20 as amended: the candidates of the peak selector are the strict
\* local maxima at the lags L with minPeriod <= L < min(maxPeriod, len - 1),
\* that is up to min(maxPeriod - 1, len - 2), and no others; the lag
\* maxPeriod itself is never a candidate
C20_LagsBelowMaxPeriod ==
  EstimateReturned =>
    estimate = EstimateOfLagsThrough(
                 MathMin(Sub(MaxPeriodOfDetector, Int2Num(1)),
                         Int2Num(Len(CorrelationsOfFrame) - 2)))

\* a call returned for a frame whose correlation has a strict local
\* maximum at the lag maxPeriod, with both neighbours inside the array
C20_Witness ==
  /\ EstimateReturned
  /\ MaxPeriodInsideCorrelations
  /\ isLocalMax(CorrelationsOfFrame, MaxPeriodOfDetector)
  /\ estimate # EstimateOfLagsThrough(MaxPeriodOfDetector)

(***************************************************************************)
(* Properties of the private stages                                        *)
(***************************************************************************)
\* the selector has been applied to stageArray and has left its loop
Selected == stageCalled = "findFundamentalFrequencyWithConfidence"

\* the lags the selector examined in stageArray that are strict local
\* maxima: its candidates
CandidateLags ==
  {lag \in 0..(Len(stageArray) - 1) :
     /\ Le(minPeriodOf(stageSelf.sampleRate, stageSelf.config), Int2Num(lag))
     /\ Lt(Int2Num(lag),
           MathMin(maxPeriodOf(stageSelf.sampleRate, stageSelf.config),
                   Int2Num(Len(stageArray) - 1)))
     /\ isLocalMax(stageArray, Int2Num(lag))}

\* the selector went on to compute a confidence and a frequency
Scored == Selected /\ stageReturn.k = "value"

\* C21: when the scan finds exactly one candidate, the dominance factor
\* applied to the confidence is 1: the confidence before the low-frequency
\* and harmonic adjustments is maxCorrelation
C21_LonePeakKeepsItsCorrelation ==
  (Scored /\ Cardinality(CandidateLags) = 1) =>
    /\ dominanceFactor(stageLocals.maxCorrelation,
                       stageLocals.secondBestCorrelation) = Int2Num(1)
    /\ Mul(stageLocals.maxCorrelation,
           dominanceFactor(stageLocals.maxCorrelation,
                           stageLocals.secondBestCorrelation))
         = stageLocals.maxCorrelation

\* the greatest of a set of finite numbers
Greatest(values) == CHOOSE v \in values : \A w \in values : Le(w, v)

\* the first lag of a set of lags at which stageArray is greatest
BestOf(lags) ==
  CHOOSE lag \in lags :
    /\ stageArray[lag + 1] = Greatest({stageArray[l + 1] : l \in lags})
    /\ \A l \in lags : stageArray[l + 1] = stageArray[lag + 1] => lag <= l

\* the candidates whose correlation is above 0, the value the scan starts
\* from
PositiveCandidateLags ==
  {lag \in CandidateLags : Gt(stageArray[lag + 1], Num(0))}

\* C22 as stated: after the scan maxCorrelation is the greatest correlation
\* over the candidates, bestPeriod the smallest lag attaining it and
\* secondBestCorrelation the second-greatest candidate value seen, equal to
\* maxCorrelation when two candidates tie for best
C22_BestAndRunnerUpOfAllCandidates ==
  (Selected /\ CandidateLags # {}) =>
    /\ stageLocals.bestPeriod = Int2Num(BestOf(CandidateLags))
    /\ stageLocals.maxCorrelation = stageArray[BestOf(CandidateLags) + 1]
    /\ CandidateLags \ {BestOf(CandidateLags)} # {} =>
         stageLocals.secondBestCorrelation
           = Greatest({stageArray[l + 1] :
                         l \in CandidateLags \ {BestOf(CandidateLags)}})

\* C22 as amended: the same over the candidates whose correlation is above
\* 0; without such a candidate maxCorrelation and bestPeriod stay 0, without
\* a second one secondBestCorrelation stays 0.  Lags that are no strict
\* local maxima influence nothing.
C22_BestAndRunnerUpOfPositiveCandidates ==
  Selected =>
    IF PositiveCandidateLags = {}
    THEN stageLocals = [maxCorrelation |-> Num(0), bestPeriod |-> Num(0),
                        secondBestCorrelation |-> Num(0)]
    ELSE /\ stageLocals.bestPeriod = Int2Num(BestOf(PositiveCandidateLags))
         /\ stageLocals.maxCorrelation
              = stageArray[BestOf(PositiveCandidateLags) + 1]
         /\ stageLocals.secondBestCorrelation
              = IF PositiveCandidateLags \ {BestOf(PositiveCandidateLags)} = {}
                THEN Num(0)
                ELSE Greatest({stageArray[l + 1] :
                                 l \in PositiveCandidateLags
                                        \ {BestOf(PositiveCandidateLags)}})

\* a scan with three candidates of which the last two tie for best, and a
\* scan whose best candidate came after a smaller one
C22_Witness ==
  /\ Selected
  /\ Cardinality(PositiveCandidateLags) >= 3
  /\ \E l \in PositiveCandidateLags :
       /\ l # BestOf(PositiveCandidateLags)
       /\ stageArray[l + 1] = stageLocals.maxCorrelation
  /\ \E l \in PositiveCandidateLags :
       /\ l < BestOf(PositiveCandidateLags)
       /\ Lt(stageArray[l + 1], stageLocals.maxCorrelation)
  /\ stageLocals.secondBestCorrelation = stageLocals.maxCorrelation

\* the preprocessor has been applied to stageArray
Filtered == stageCalled = "applyGuitarFrequencyFilter"

\* C23 as stated: the preprocessor returns a buffer of the length of its
\* input, and for a frame of length 0 or 1 the returned buffer equals the
\* input
C23_ShortFramesComeBackUnchanged ==
  Filtered =>
    /\ Len(stageReturn) = Len(stageArray)
    /\ Len(stageArray) <= 1 => stageReturn = stageArray

\* C23 as amended: the preprocessor returns a buffer of the length of its
\* input; a frame of length 0 comes back empty, and a frame of length 1
\* comes back as the one sample 0 when its sample is finite (the sample is
\* its own mean) and as NaN when it is not
C23_OneSampleFrameIsCentred ==
  Filtered =>
    /\ Len(stageReturn) = Len(stageArray)
    /\ Len(stageArray) = 1 =>
         stageReturn = <<IF IsFinite(stageArray[1]) THEN Num(0) ELSE NaN>>

\* a frame of one sample that is not 0 has been preprocessed
C23_Witness ==
  /\ Filtered
  /\ stageArray = <<Half>>
  /\ stageReturn = <<Num(0)>>

\* C24: every estimate detectPitchWithConfidence returns, and every
\* estimate the selector hands to it, whatever the shape of the
\* correlations, has frequency > 0 and 0 <= confidence <= 1: the factor
\* 1.1 and the harmonic factor of up to 1.2 never push the returned
\* confidence above 1
C24_EstimateWithinRange ==
  (stageCalled \in {"detectPitchWithConfidence",
                    "findFundamentalFrequencyWithConfidence"}
   /\ stageReturn.k = "value") =>
    /\ Gt(stageReturn.frequency, Num(0))
    /\ Ge(stageReturn.confidence, Num(0))
    /\ Le(stageReturn.confidence, Int2Num(1))

\* a peak of correlation 1 with a runner-up of at most half its height,
\* below 150 Hz and with a consistent harmonic: both factors apply, and the
\* confidence returned is 1
C24_Witness ==
  /\ Scored
  /\ stageLocals.maxCorrelation = Int2Num(1)
  /\ dominanceFactor(stageLocals.maxCorrelation,
                     stageLocals.secondBestCorrelation) = Int2Num(1)
  /\ Lt(Div(stageSelf.sampleRate, stageLocals.bestPeriod), Int2Num(150))
  /\ calculateConsistencyBonus(stageArray, stageLocals.bestPeriod) = Int2Num(1)
  /\ stageReturn.confidence = Int2Num(1)

\* the autocorrelator has been applied to stageArray
Autocorrelated == stageCalled = "autocorrelate"

\* every sample of stageArray is finite
FiniteFrame == \A i \in 1..Len(stageArray) : IsFinite(stageArray[i])

\* the correlations are as C25 states them for a frame of this energy
NormalisedCorrelations ==
  /\ Len(stageReturn) = Len(stageArray) \div 2
  /\ IF sumSquaresOf(stageArray) = Num(0)
     THEN \A i \in 1..Len(stageReturn) : stageReturn[i] = Num(0)
     ELSE /\ Len(stageReturn) >= 1 => stageReturn[1] = Int2Num(1)
          /\ \A i \in 1..Len(stageReturn) :
               /\ Le(Int2Num(-1), stageReturn[i])
               /\ Le(stageReturn[i], Int2Num(1))

\* C25 as stated: for a frame of length N the autocorrelator returns
\* floor(N/2) values; if the centred frame has zero energy all of them are
\* 0, otherwise the value at lag 0 is exactly 1 and every value lies
\* between -1 and 1
C25_CorrelationsNormalised == Autocorrelated => NormalisedCorrelations

\* C25 as amended: the same for a frame whose samples are all finite; for a
\* frame with a NaN or infinite sample the floor(N/2) values are all NaN
C25_FiniteFramesNormalised ==
  Autocorrelated =>
    IF FiniteFrame THEN NormalisedCorrelations
    ELSE /\ Len(stageReturn) = Len(stageArray) \div 2
         /\ \A i \in 1..Len(stageReturn) : IsNaN(stageReturn[i])

\* a finite frame with energy has been correlated: 1 at lag 0, a negative
\* value and a value strictly between 0 and 1 at later lags
C25_Witness ==
  /\ Autocorrelated
  /\ FiniteFrame
  /\ sumSquaresOf(stageArray) # Num(0)
  /\ Len(stageReturn) >= 3
  /\ stageReturn[1] = Int2Num(1)
  /\ \E i \in 2..Len(stageReturn) : Lt(stageReturn[i], Num(0))
  /\ \E i \in 2..Len(stageReturn) :
       Gt(stageReturn[i], Num(0)) /\ Lt(stageReturn[i], Int2Num(1))

\* the parabola the refiner lays through the peak the selector chose
ParabolaOfPeak == Parabola(stageArray, stageLocals.bestPeriod)

\* C30: for every peak the selector hands to the refiner, a strict local
\* maximum at an interior index >= 1, the coefficient a of the parabola is
\* strictly negative, so the fallback for a = 0 is not taken: the offset
\* is less than 1/2 in absolute value, the refined period
\* peakPeriod + offset is strictly positive and the frequency returned is
\* sampleRate over that period
C30_RefinedPeriodNearPeak ==
  Scored =>
    /\ Ge(stageLocals.bestPeriod, Int2Num(1))
    /\ Le(stageLocals.bestPeriod, Int2Num(Len(stageArray) - 2))
    /\ isLocalMax(stageArray, stageLocals.bestPeriod)
    /\ Lt(ParabolaOfPeak.a, Num(0))
    /\ Lt(MathAbs(ParabolaOfPeak.xOffset), Half)
    /\ Gt(ParabolaOfPeak.interpolatedPeriod, Num(0))
    /\ stageReturn.frequency
         = Div(stageSelf.sampleRate, ParabolaOfPeak.interpolatedPeriod)

\* a peak with unequal neighbours has been refined: the offset is not 0
\* and the frequency is not the one of the integer lag
C30_Witness ==
  /\ Scored
  /\ ParabolaOfPeak.xOffset # Num(0)
  /\ stageReturn.frequency
       # Div(stageSelf.sampleRate, stageLocals.bestPeriod)

(***************************************************************************)
(* Properties of the interleaved AudioManager and of GuitarTunerApp        *)
(***************************************************************************)

\* the error startRecording() throws on a manager that is not initialized
NotInitializedError ==
  Error("AudioManager is not initialized. Call initialize() first.")

\* C29: in every reachable state of the AudioManager, under any sequence
\* and interleaving of initialize (successful or failing), startRecording,
\* stopRecording and cleanup, recording = true implies initialized = true;
\* startRecording on a manager that is not initialized throws and leaves
\* recording = false
C29_RecordingOnlyWhenInitialized ==
  /\ audioManager.isRecording => audioManager.isInitialized
  /\ called = "startRecording"
       => IF audioManager.isInitialized
          THEN rejected = NoError /\ audioManager.isRecording
          ELSE rejected = NotInitializedError /\ ~audioManager.isRecording

\* startRecording has thrown while an initialize() awaits getUserMedia
C29_Witness ==
  /\ called = "startRecording"
  /\ rejected = NotInitializedError
  /\ ~audioManager.isRecording
  /\ initializing.at = "getUserMedia"

\* the try block of processAudio ran in the last frame callback
FrameDidWork == lastFrame.ended \in {"processed", "minor", "critical", "stopped"}

\* C26: the processing loop moves the app to ERROR and stops scheduling
\* frames once 10 consecutive frames have raised a minor processing error;
\* every frame that is processed without raising an error resets the
\* consecutive-error count to 0, so errors separated by error-free frames
\* never add up to a stop
C26_TenConsecutiveErrorsStop ==
  /\ errorRun >= maxErrorCount
       => tunerApp.currentState = ERROR /\ animationFrames = {}
  /\ called = "processAudio" /\ lastFrame.ended = "processed"
       => tunerApp.audioProcessingErrorCount = 0
  /\ lastFrame.ended = "stopped" => errorRun >= maxErrorCount

\* C27: whenever handleStop has run to completion the app state is IDLE,
\* no frame of the processing loop is scheduled and the AudioManager is
\* neither initialized nor recording, and this remains so until the next
\* start request, in every interleaving of the async handlers, a stop
\* requested while handleStart awaits initialize() included
C27_StoppedUntilNextStart ==
  stopCompleted =>
    /\ tunerApp.currentState = IDLE
    /\ tunerApp.processingLoopId = 0
    /\ animationFrames = {}
    /\ ~audioManager.isInitialized
    /\ ~audioManager.isRecording

\* C28: at most one frame callback of the processing loop is pending at
\* any time, under every interleaving of start, stop, page-hidden,
\* page-visible and error events, and a frame performs detection or a
\* display update only while the app state is READY or LISTENING
C28_OneFramePending ==
  /\ Cardinality(animationFrames) <= 1
  /\ FrameDidWork => lastFrame.state \in {READY, LISTENING}

\* the page was shown while the loop was running, a minor error counted:
\* the frame that was pending is still the only one
C28_Witness ==
  /\ called = "handlePageVisible"
  /\ lastFrame.ended = "minor"
  /\ tunerApp.audioProcessingErrorCount > 0
  /\ animationFrames = {tunerApp.processingLoopId}

====
